---- MODULE Spec2Model ----
(***************************************************************************)
(* A model of the semantic memory engine of mcp_memory_server:             *)
(*   embeddings.py  the lazily loaded, shared embedding model              *)
(*   database.py    the two paired SQLite tables memories / vec_memories   *)
(*                  and the operations create / update / delete / search / *)
(*                  list on them                                           *)
(* Every engine operation opens its own SQLite connection, so the store is *)
(* modelled as a committed state plus the pending state of the one         *)
(* connection that holds SQLite's write lock.                              *)
(***************************************************************************)
EXTENDS Integers, Sequences, FiniteSets, TLC

(***************************************************************************)
(* Bounds of the model.                                                    *)
(***************************************************************************)
NumCallers == 2      \* concurrent request-handling threads
MaxId == 2           \* ids the AUTOINCREMENT counter may hand out
MaxLoads == 2        \* calls of start_model_loading
NumContents == 2     \* distinct texts offered as content
MaxTime == 1         \* ticks of the wall clock
MaxRows == 3         \* records of the store the sequential client starts on
MaxLimit == 3        \* largest limit asked of search_memories / list_memories
MaxPage == 4         \* largest page asked of list_memories
MaxDim == 2          \* longest vector handed to embedding_to_blob

Callers == 1..NumCallers
Loaders == 1..MaxLoads
Ids == 1..MaxId
Contents == 1..NumContents
Times == 0..MaxTime

None == 0            \* Python's None for the integer-valued globals and columns

(***************************************************************************)
(* Program constants.                                                      *)
(***************************************************************************)
EMBEDDING_DIM == 384
FIND_SIMILAR_LIMIT == 5

(***************************************************************************)
(* The embedding model as a black box: text -> unit vector.  Vectors are   *)
(* points with integer coordinates on the circle of radius Norm, so the    *)
(* unit vector is the point divided by Norm and all arithmetic is exact.   *)
(***************************************************************************)
Norm == 13
NormSq == Norm * Norm

EmbeddingTable ==
    << <<13, 0>>, <<-5, 12>>, <<12, 5>>, <<5, 12>>, <<0, 13>>, <<-13, 0>> >>

\* _model.encode(text, normalize_embeddings=True): deterministic in the text.
Encode(text) == EmbeddingTable[text]

\* Squared L2 distance of two unit vectors, as a multiple of 1/NormSq.
DistSq(a, b) == (a[1] - b[1]) * (a[1] - b[1]) + (a[2] - b[2]) * (a[2] - b[2])

\* similarity < similarity_threshold, for a similarity that is a multiple
\* of 1/(2*NormSq) and a threshold given in hundredths (70 for 0.7).
BelowThreshold(sim, hundredths) == 100 * sim < hundredths * 2 * NormSq

\* get_duplicate_threshold(): MEMORY_DUPLICATE_THRESHOLD, default 0.7.
DuplicateThreshold == 70

VARIABLES
    model,             \* _model: None or the instance built by loader l
    model_name,        \* _model_name: None or 1 (the configured name)
    model_dimension,   \* _model_dimension: None or EMBEDDING_DIM
    model_ready,       \* _model_ready: the threading.Event
    model_error,       \* _model_error: None or the exception of loader l
    async_loading,     \* is_async_model_loading(): fixed by the environment
    loads,             \* number of start_model_loading calls so far
    loader,            \* loader[l]: position of the l-th _load_model run
    memories,          \* committed rows of table memories: id -> row
    vec_memories,      \* committed rows of vec_memories: rowid -> embedding
    sqlite_sequence,   \* committed AUTOINCREMENT counter of memories
    writer,            \* caller whose connection holds the write lock, or None
    wMemories,         \* memories as seen inside the writer's transaction
    wVec,              \* vec_memories as seen inside the writer's transaction
    wSeq,              \* sqlite_sequence inside the writer's transaction
    now,               \* the wall clock
    tie_order,         \* how the engine orders rows with equal sort keys
    call               \* call[p]: the operation caller p is executing

modelVars == <<model, model_name, model_dimension, model_ready, model_error,
               async_loading, loads, loader>>
dbVars == <<memories, vec_memories, sqlite_sequence>>
txVars == <<writer, wMemories, wVec, wSeq>>
vars == <<modelVars, dbVars, txVars, now, tie_order, call>>

EmptyTable == [i \in {} |-> None]

\* SQLite and vec0 leave the order of rows with equal sort keys undefined.
\* The engine is deterministic, so a build emits them in one fixed order:
\* the order of its table scan, by ascending rowid, or the reverse.
TieOrders == {"rowid_asc", "rowid_desc"}

\* A caller between two operations.
Idle == [op |-> "idle", pc |-> "idle", content |-> None, metadata |-> None,
         force |-> FALSE, memory_id |-> None, limit |-> 0, threshold |-> 0,
         page |-> 0, total |-> 0,
         embedding |-> <<>>, cands |-> <<>>, results |-> <<>>,
         stamp |-> None, ld |-> None, wrote |-> FALSE, disturbed |-> FALSE,
         waited |-> FALSE, ret |-> [status |-> "none"]]

Init ==
    /\ model = None
    /\ model_name = None
    /\ model_dimension = None
    /\ model_ready = FALSE
    /\ model_error = None
    /\ async_loading \in BOOLEAN
    /\ loads = 0
    /\ loader = [l \in Loaders |-> "unstarted"]
    /\ memories = EmptyTable
    /\ vec_memories = EmptyTable
    /\ sqlite_sequence = 0
    /\ writer = None
    /\ wMemories = EmptyTable
    /\ wVec = EmptyTable
    /\ wSeq = 0
    /\ now = 0
    /\ tie_order \in TieOrders
    /\ call = [p \in Callers |-> Idle]

(***************************************************************************)
(* embeddings.py                                                           *)
(***************************************************************************)

\* start_model_loading(): a daemon thread runs _load_model, or the caller
\* runs it itself and returns when it has finished.  Nothing in it looks at
\* an earlier call: every call runs _load_model.
StartModelLoading(p) ==
    /\ call[p].pc = "idle"
    /\ loads < MaxLoads
    /\ loads' = loads + 1
    /\ loader' = [loader EXCEPT ![loads + 1] = "construct"]
    /\ call' = [call EXCEPT ![p] =
         IF async_loading
         THEN [Idle EXCEPT !.op = "start_model_loading", !.pc = "done",
                           !.ret = [status |-> "returned"]]
         ELSE [Idle EXCEPT !.op = "start_model_loading",
                           !.pc = "sync_load", !.ld = loads + 1]]
    /\ UNCHANGED <<model, model_name, model_dimension, model_ready,
                   model_error, async_loading, dbVars, txVars, now, tie_order>>

\* The synchronous start_model_loading returns once its _load_model has.
SyncLoadReturn(p) ==
    /\ call[p].pc = "sync_load"
    /\ loader[call[p].ld] = "done"
    /\ call' = [call EXCEPT ![p] = [@ EXCEPT !.pc = "done", !.ld = None,
                                       !.ret = [status |-> "returned"]]]
    /\ UNCHANGED <<modelVars, dbVars, txVars, now, tie_order>>

\* Mutant of LoadConstruct: the event is set as soon as the model object
\* exists, before its name and dimension are.
LoadConstructReleases(l) ==
    /\ loader[l] = "construct"
    /\ \/ /\ model' = l
          /\ loader' = [loader EXCEPT ![l] = "set_name"]
       \/ /\ UNCHANGED model
          /\ loader' = [loader EXCEPT ![l] = "except"]
    /\ model_ready' = TRUE
    /\ UNCHANGED <<model_name, model_dimension, model_error,
                   async_loading, loads, dbVars, txVars, now, tie_order, call>>

\* _load_model, line 23: _model = SentenceTransformer(model_name), or raise.
LoadConstruct(l) ==
    /\ loader[l] = "construct"
    /\ \/ /\ model' = l
          /\ loader' = [loader EXCEPT ![l] = "set_name"]
       \/ /\ UNCHANGED model
          /\ loader' = [loader EXCEPT ![l] = "except"]
    /\ UNCHANGED <<model_name, model_dimension, model_ready, model_error,
                   async_loading, loads, dbVars, txVars, now, tie_order, call>>

\* _load_model, line 24.
LoadSetName(l) ==
    /\ loader[l] = "set_name"
    /\ model_name' = 1
    /\ loader' = [loader EXCEPT ![l] = "set_dimension"]
    /\ UNCHANGED <<model, model_dimension, model_ready, model_error,
                   async_loading, loads, dbVars, txVars, now, tie_order, call>>

\* _load_model, line 25: get_sentence_embedding_dimension(), or raise.
LoadSetDimension(l) ==
    /\ loader[l] = "set_dimension"
    /\ \/ /\ model_dimension' = EMBEDDING_DIM
          /\ loader' = [loader EXCEPT ![l] = "set_ready"]
       \/ /\ UNCHANGED model_dimension
          /\ loader' = [loader EXCEPT ![l] = "except"]
    /\ UNCHANGED <<model, model_name, model_ready, model_error,
                   async_loading, loads, dbVars, txVars, now, tie_order, call>>

\* _load_model, line 26.
LoadSetReady(l) ==
    /\ loader[l] = "set_ready"
    /\ model_ready' = TRUE
    /\ loader' = [loader EXCEPT ![l] = "done"]
    /\ UNCHANGED <<model, model_name, model_dimension, model_error,
                   async_loading, loads, dbVars, txVars, now, tie_order, call>>

\* _load_model, line 28: the exception of run l is kept in _model_error.
LoadExcept(l) ==
    /\ loader[l] = "except"
    /\ model_error' = l
    /\ loader' = [loader EXCEPT ![l] = "except_set"]
    /\ UNCHANGED <<model, model_name, model_dimension, model_ready,
                   async_loading, loads, dbVars, txVars, now, tie_order, call>>

\* Mutant of LoadExceptSet: the except branch ends without setting the event.
LoadExceptSetForgets(l) ==
    /\ loader[l] = "except_set"
    /\ loader' = [loader EXCEPT ![l] = "done"]
    /\ UNCHANGED <<model, model_name, model_dimension, model_ready, model_error,
                   async_loading, loads, dbVars, txVars, now, tie_order, call>>

\* _load_model, line 29.
LoadExceptSet(l) ==
    /\ loader[l] = "except_set"
    /\ model_ready' = TRUE
    /\ loader' = [loader EXCEPT ![l] = "done"]
    /\ UNCHANGED <<model, model_name, model_dimension, model_error,
                   async_loading, loads, dbVars, txVars, now, tie_order, call>>

\* is_model_ready()
is_model_ready == model_ready /\ model_error = None

\* What get_embedding(text) does once _model_ready.wait() has returned:
\* raise _model_error, raise RuntimeError("Model not loaded"), or encode.
EmbeddingOutcome(text) ==
    IF model_error # None
    THEN [status |-> "raised", error |-> "model_error", cause |-> model_error]
    ELSE IF model = None
    THEN [status |-> "raised", error |-> "Model not loaded", cause |-> None]
    ELSE [status |-> "ok", vector |-> Encode(text), instance |-> model]

\* What get_model_info() does once _model_ready.wait() has returned: raise
\* _model_error, raise RuntimeError("Model not loaded"), or return the pair.
ModelInfoOutcome ==
    IF model_error # None
    THEN [status |-> "raised", error |-> "model_error", cause |-> model_error]
    ELSE IF model_name = None \/ model_dimension = None
    THEN [status |-> "raised", error |-> "Model not loaded", cause |-> None]
    ELSE [status |-> "ok", name |-> model_name, dimension |-> model_dimension]

(***************************************************************************)
(* database.py: values and pure helpers                                    *)
(***************************************************************************)

\* Python floats are doubles; format 'f' of struct is the IEEE 754 single
\* precision float, with a significand of 24 bits.  The floats of the model
\* are whole numbers, which a double holds exactly far beyond 2^24.
Significand == 16777216

Abs(x) == IF x < 0 THEN -x ELSE x

RECURSIVE Pow2(_)
Pow2(e) == IF e = 0 THEN 1 ELSE 2 * Pow2(e - 1)

\* The distance between neighbouring single precision floats at a >= 0.
RECURSIVE Ulp(_)
Ulp(a) == IF a < Significand THEN 1 ELSE 2 * Ulp(a \div 2)

\* struct.pack('f', x): x rounded to the nearest single precision float,
\* ties to the even significand.
Float32(x) ==
    LET a == Abs(x)
        u == Ulp(a)
        lo == (a \div u) * u
        r == a - lo
        up == IF 2 * r > u THEN TRUE
              ELSE IF 2 * r < u THEN FALSE
              ELSE (lo \div u) % 2 = 1
        m == IF up THEN lo + u ELSE lo
    IN  IF x < 0 THEN -m ELSE m

\* embedding_to_blob: struct.pack of len(embedding) 4-byte floats.  The
\* vectors of the model are float32 values, which pack stores unchanged.
embedding_to_blob(embedding) ==
    [bytes |-> 4 * Len(embedding),
     floats |-> [i \in DOMAIN embedding |-> Float32(embedding[i])]]

\* Mutant of blob_to_embedding: len(blob) // 8 floats.
blob_to_embedding_by8(blob) == SubSeq(blob.floats, 1, blob.bytes \div 8)

\* blob_to_embedding: len(blob) // 4 floats.
blob_to_embedding(blob) == SubSeq(blob.floats, 1, blob.bytes \div 4)

\* The metadata argument: Python None, the empty dict, a non-empty dict.
Metadatas == {"None", "dict()", "dict(k=v)"}

\* Python truthiness of the metadata argument.
Truthy(metadata) == metadata \notin {"None", "dict()"}

json_dumps(metadata) ==
    IF metadata = "dict()" THEN "{}" ELSE
    IF metadata = "dict(k=v)" THEN "{\"k\": \"v\"}" ELSE "null"

json_loads(text) ==
    IF text = "{}" THEN "dict()" ELSE
    IF text = "{\"k\": \"v\"}" THEN "dict(k=v)" ELSE "None"

\* metadata_json = json.dumps(metadata) if metadata else None
metadata_json(metadata) ==
    IF Truthy(metadata) THEN json_dumps(metadata) ELSE "NULL"

\* json.loads(row["metadata"]) if row["metadata"] else None
metadata_out(column) ==
    IF column \notin {"NULL", ""} THEN json_loads(column) ELSE "None"

\* Table t with row r at key k, and without key k.
Put(t, k, r) == [i \in DOMAIN t \cup {k} |-> IF i = k THEN r ELSE t[i]]
Remove(t, k) == [i \in DOMAIN t \ {k} |-> t[i]]

\* All orderings of the finite set S as sequences without repetition.
Orderings(S) ==
    {s \in [1..Cardinality(S) -> S] : \A i, j \in DOMAIN s : i # j => s[i] # s[j]}

\* Row i comes before row j among rows with equal sort keys.
TieBefore(i, j) == IF tie_order = "rowid_asc" THEN i < j ELSE i > j

\* Mutant of KnnResults: the k nearest rowids come in rowid order.
KnnResultsByRowid(vec, query, k) ==
    LET n == IF k < Cardinality(DOMAIN vec) THEN k ELSE Cardinality(DOMAIN vec)
        d(i) == DistSq(blob_to_embedding(vec[i]), query)
        before(i, j) == d(i) < d(j) \/ (d(i) = d(j) /\ TieBefore(i, j))
        picks == {S \in SUBSET DOMAIN vec :
                    /\ Cardinality(S) = n
                    /\ \A i \in S, j \in DOMAIN vec \ S : before(i, j)}
        sorted(S) == {s \in Orderings(S) :
                        \A a, b \in DOMAIN s : a < b => s[a] < s[b]}
    IN  UNION {{[a \in DOMAIN s |-> [rowid |-> s[a], distsq |-> d(s[a])]] :
                   s \in sorted(S)} : S \in picks}

\* The vec0 KNN query: the k nearest rowids by L2 distance, nearest first,
\* each with its distance; equal distances in the engine's tie order.
KnnResults(vec, query, k) ==
    LET n == IF k < Cardinality(DOMAIN vec) THEN k ELSE Cardinality(DOMAIN vec)
        d(i) == DistSq(blob_to_embedding(vec[i]), query)
        before(i, j) == d(i) < d(j) \/ (d(i) = d(j) /\ TieBefore(i, j))
        picks == {S \in SUBSET DOMAIN vec :
                    /\ Cardinality(S) = n
                    /\ \A i \in S, j \in DOMAIN vec \ S : before(i, j)}
        sorted(S) == {s \in Orderings(S) :
                        \A a, b \in DOMAIN s : a < b => before(s[a], s[b])}
    IN  UNION {{[a \in DOMAIN s |-> [rowid |-> s[a], distsq |-> d(s[a])]] :
                   s \in sorted(S)} : S \in picks}

\* round(similarity, 4), in units of 1/10000.
Round4(sim) == (20000 * sim + 2 * NormSq) \div (4 * NormSq)

\* similarity = 1 - (distance * distance / 2), as a multiple of 1/(2*NormSq).
SimilarityOf(distsq) == 2 * NormSq - distsq

\* One result entry of search_memories.
SearchEntry(row, id, sim) ==
    [id |-> id, content |-> row.content, similarity |-> Round4(sim),
     created_at |-> row.created_at, updated_at |-> row.updated_at,
     metadata |-> metadata_out(row.metadata)]

\* Mutant of LoopBody: candidates below the threshold are not discarded.
LoopBodyNoFilter(cand, mem, threshold, results) ==
    IF cand.rowid \in DOMAIN mem
    THEN Append(results, SearchEntry(mem[cand.rowid], cand.rowid,
                                     SimilarityOf(cand.distsq)))
    ELSE results

\* Mutant of LoopBody: the comparison with the threshold is the wrong way
\* round.
LoopBodyInverted(cand, mem, threshold, results) ==
    IF ~BelowThreshold(SimilarityOf(cand.distsq), threshold)
    THEN results
    ELSE IF cand.rowid \in DOMAIN mem
         THEN Append(results, SearchEntry(mem[cand.rowid], cand.rowid,
                                          SimilarityOf(cand.distsq)))
         ELSE results

\* One pass of the loop body of search_memories over candidate cand: the
\* results after it.
LoopBody(cand, mem, threshold, results) ==
    IF BelowThreshold(SimilarityOf(cand.distsq), threshold)
    THEN results
    ELSE IF cand.rowid \in DOMAIN mem
         THEN Append(results, SearchEntry(mem[cand.rowid], cand.rowid,
                                          SimilarityOf(cand.distsq)))
         ELSE results

\* Mutant of LoopBreaks: the loop never leaves early.
LoopBreaksNever(cand, threshold, limit, results) == FALSE

\* Whether the loop leaves at "if len(results) >= limit: break" after cand.
LoopBreaks(cand, threshold, limit, results) ==
    /\ ~BelowThreshold(SimilarityOf(cand.distsq), threshold)
    /\ Len(results) >= limit

\* The whole loop run against one state mem of table memories.
RECURSIVE HydrateAll(_, _, _, _, _)
HydrateAll(cands, mem, limit, threshold, results) ==
    IF cands = <<>> THEN results
    ELSE LET r == LoopBody(Head(cands), mem, threshold, results)
         IN  IF LoopBreaks(Head(cands), threshold, limit, r)
             THEN r
             ELSE HydrateAll(Tail(cands), mem, limit, threshold, r)

\* search_memories run without interruption on the tables (mem, vec): the
\* result lists it can return.
SearchOn(mem, vec, query, limit, threshold) ==
    {HydrateAll(c, mem, limit, threshold, <<>>) :
        c \in KnnResults(vec, Encode(query), limit * 2)}

\* list_memories: SELECT COUNT(*) and the rows ORDER BY created_at DESC
\* LIMIT limit OFFSET (page - 1) * limit; rows with equal created_at come in
\* the engine's tie order.
ListTotal(mem) == Cardinality(DOMAIN mem)

ListOrders(mem) ==
    {s \in Orderings(DOMAIN mem) :
        \A a, b \in DOMAIN s : a < b =>
            \/ mem[s[a]].created_at > mem[s[b]].created_at
            \/ /\ mem[s[a]].created_at = mem[s[b]].created_at
               /\ TieBefore(s[a], s[b])}

\* Mutant of ListPage: the offset is page * limit.
ListPageOffByOne(order, page, limit) ==
    LET offset == page * limit
        first == offset + 1
        last == IF offset + limit < Len(order) THEN offset + limit ELSE Len(order)
    IN  SubSeq(order, first, last)

\* Mutant of ListPage: a page beyond the last one shows the last one.
ListPageClamped(order, page, limit) ==
    LET pages == IF Len(order) > 0 THEN (Len(order) + limit - 1) \div limit ELSE 1
        shown == IF page > pages THEN pages ELSE page
        offset == (shown - 1) * limit
        first == offset + 1
        last == IF offset + limit < Len(order) THEN offset + limit ELSE Len(order)
    IN  SubSeq(order, first, last)

ListPage(order, page, limit) ==
    LET offset == (page - 1) * limit
        first == offset + 1
        last == IF offset + limit < Len(order) THEN offset + limit ELSE Len(order)
    IN  SubSeq(order, first, last)

\* Mutant of TotalPages: the division rounds down.
TotalPagesFloor(total, limit) ==
    IF total > 0 THEN total \div limit ELSE 1

TotalPages(total, limit) ==
    IF total > 0 THEN (total + limit - 1) \div limit ELSE 1


(***************************************************************************)
(* database.py: the operations, one action per statement that touches      *)
(* shared state                                                            *)
(***************************************************************************)

\* Caller p's record after an exception leaves the operation.  The
\* connection is not closed on this path: a transaction it has open stays
\* open, with its write lock, until the connection object is finalized.
Raised(p, error, cause) ==
    [call[p] EXCEPT !.pc = IF writer = p THEN "raised" ELSE "done",
                    !.cands = <<>>, !.results = <<>>, !.embedding = <<>>,
                    !.ret = [status |-> "raised", error |-> error, cause |-> cause]]

\* Creates that may still ask for an id.
PendingCreates ==
    {q \in Callers : call[q].op = "create_memory"
                       /\ call[q].pc \in {"search_embed", "search_knn",
                                          "search_hydrate", "embed", "insert_memories"}}

\* Mutant of CreateCall: the duplicate guard runs whatever force is.
CreateCallAlwaysGuards(p, content, metadata, force) ==
    /\ call[p].pc = "idle"
    /\ sqlite_sequence + Cardinality(PendingCreates) < MaxId
    /\ call' = [call EXCEPT ![p] =
         [Idle EXCEPT !.op = "create_memory", !.content = content,
                      !.metadata = metadata, !.force = force,
                      !.limit = FIND_SIMILAR_LIMIT,
                      !.threshold = DuplicateThreshold,
                      !.pc = "search_embed"]]
    /\ UNCHANGED <<modelVars, dbVars, txVars, now, tie_order>>

\* Mutant of CreateCall: find_similar_memories asks for no candidates.
CreateCallNoCandidates(p, content, metadata, force) ==
    /\ call[p].pc = "idle"
    /\ sqlite_sequence + Cardinality(PendingCreates) < MaxId
    /\ call' = [call EXCEPT ![p] =
         [Idle EXCEPT !.op = "create_memory", !.content = content,
                      !.metadata = metadata, !.force = force,
                      !.limit = 0,
                      !.threshold = IF force THEN 0 ELSE DuplicateThreshold,
                      !.pc = IF force THEN "embed" ELSE "search_embed"]]
    /\ UNCHANGED <<modelVars, dbVars, txVars, now, tie_order>>

\* create_memory(content, metadata, force) is called: with force it goes to
\* line 139, without to find_similar_memories -> search_memories, line 59.
CreateCall(p, content, metadata, force) ==
    /\ call[p].pc = "idle"
    /\ sqlite_sequence + Cardinality(PendingCreates) < MaxId
    /\ call' = [call EXCEPT ![p] =
         [Idle EXCEPT !.op = "create_memory", !.content = content,
                      !.metadata = metadata, !.force = force,
                      !.limit = IF force THEN 0 ELSE FIND_SIMILAR_LIMIT,
                      !.threshold = IF force THEN 0 ELSE DuplicateThreshold,
                      !.pc = IF force THEN "embed" ELSE "search_embed"]]
    /\ UNCHANGED <<modelVars, dbVars, txVars, now, tie_order>>

\* search_memories(query, limit, similarity_threshold) is called.
SearchCall(p, query, limit, threshold) ==
    /\ call[p].pc = "idle"
    /\ call' = [call EXCEPT ![p] =
         [Idle EXCEPT !.op = "search_memories", !.content = query,
                      !.limit = limit, !.threshold = threshold,
                      !.pc = "search_embed"]]
    /\ UNCHANGED <<modelVars, dbVars, txVars, now, tie_order>>

\* search_memories, lines 59-60: get_embedding(query) waits for the event.
SearchEmbed(p) ==
    /\ call[p].pc = "search_embed"
    /\ model_ready
    /\ LET out == EmbeddingOutcome(call[p].content)
       IN  call' = [call EXCEPT ![p] =
             IF out.status = "ok"
             THEN [@ EXCEPT !.embedding = out.vector, !.pc = "search_knn"]
             ELSE Raised(p, out.error, out.cause)]
    /\ UNCHANGED <<modelVars, dbVars, txVars, now, tie_order>>

\* The caller's record when search_memories returns results: the search
\* operation returns them, create_memory refuses on a non-empty list and
\* goes on to line 139 on an empty one.
SearchReturns(c, results) ==
    IF c.op = "search_memories"
    THEN [c EXCEPT !.pc = "done", !.cands = <<>>, !.results = <<>>,
                   !.embedding = <<>>,
                   !.ret = [status |-> "results", results |-> results]]
    ELSE IF results # <<>>
    THEN [c EXCEPT !.pc = "done", !.cands = <<>>, !.results = <<>>,
                   !.embedding = <<>>,
                   !.ret = [status |-> "conflict_detected",
                            similar_memories |->
                              [i \in DOMAIN results |->
                                 [id |-> results[i].id,
                                  content |-> results[i].content,
                                  similarity |-> results[i].similarity]]]]
    ELSE [c EXCEPT !.pc = "embed", !.cands = <<>>, !.results = <<>>,
                   !.embedding = <<>>, !.disturbed = FALSE]

\* Mutant of KnnLimit: the query asks for half of limit candidates, not twice.
KnnLimitUnderFetch(vec, k) == IF k < 0 THEN Cardinality(DOMAIN vec) ELSE k \div 4

\* The number of rows LIMIT k lets through: SQLite reads a negative LIMIT as
\* no upper bound.
KnnLimit(vec, k) == IF k < 0 THEN Cardinality(DOMAIN vec) ELSE k

\* search_memories, lines 65-78: the KNN query on vec_memories.
SearchKnn(p) ==
    /\ call[p].pc = "search_knn"
    /\ \E cands \in KnnResults(vec_memories, call[p].embedding,
                               KnnLimit(vec_memories, call[p].limit * 2)) :
         call' = [call EXCEPT ![p] =
           IF cands = <<>>
           THEN SearchReturns(@, <<>>)
           ELSE [@ EXCEPT !.cands = cands, !.pc = "search_hydrate"]]
    /\ UNCHANGED <<modelVars, dbVars, txVars, now, tie_order>>

\* search_memories, lines 65-76, with limit * 2 < 0: the vec0 table takes the
\* LIMIT as its k and refuses a negative one; cursor.execute raises.  Whether
\* the statement is refused or runs unbounded is the index extension's
\* choice, so both outcomes are steps of the model.
SearchKnnRejects(p) ==
    /\ call[p].pc = "search_knn"
    /\ call[p].limit * 2 < 0
    /\ call' = [call EXCEPT ![p] = Raised(p, "sqlite3.OperationalError", None)]
    /\ UNCHANGED <<modelVars, dbVars, txVars, now, tie_order>>

\* Mutant of SearchHydrate: the search stamps every record it returns as
\* just used, an UPDATE of updated_at in autocommit.
SearchHydrateTouches(p) ==
    /\ call[p].pc = "search_hydrate"
    /\ LET c == call[p]
           cand == Head(c.cands)
           r == LoopBody(cand, memories, c.threshold, c.results)
           touched == IF Len(r) > Len(c.results)
                      THEN [memories EXCEPT ![cand.rowid].updated_at = now]
                      ELSE memories
       IN  /\ call' = [call EXCEPT ![p] =
                IF Tail(c.cands) = <<>> \/ LoopBreaks(cand, c.threshold, c.limit, r)
                THEN SearchReturns(c, r)
                ELSE [c EXCEPT !.cands = Tail(c.cands), !.results = r]]
           /\ memories' = touched
    /\ UNCHANGED <<modelVars, vec_memories, sqlite_sequence, txVars, now, tie_order>>

\* Mutant of SearchHydrate: without "if memory_row:", a candidate whose
\* record is gone makes memory_row["id"] raise.
SearchHydrateFailsOnMissing(p) ==
    /\ call[p].pc = "search_hydrate"
    /\ LET c == call[p]
           cand == Head(c.cands)
           r == LoopBody(cand, memories, c.threshold, c.results)
       IN  call' = [call EXCEPT ![p] =
             IF /\ ~BelowThreshold(SimilarityOf(cand.distsq), c.threshold)
                /\ cand.rowid \notin DOMAIN memories
             THEN Raised(p, "TypeError", None)
             ELSE IF Tail(c.cands) = <<>> \/ LoopBreaks(cand, c.threshold, c.limit, r)
             THEN SearchReturns(c, r)
             ELSE [c EXCEPT !.cands = Tail(c.cands), !.results = r]]
    /\ UNCHANGED <<modelVars, dbVars, txVars, now, tie_order>>

\* search_memories, lines 81-107: one pass of the loop, with its SELECT on
\* memories.
SearchHydrate(p) ==
    /\ call[p].pc = "search_hydrate"
    /\ LET c == call[p]
           cand == Head(c.cands)
           r == LoopBody(cand, memories, c.threshold, c.results)
       IN  call' = [call EXCEPT ![p] =
             IF Tail(c.cands) = <<>> \/ LoopBreaks(cand, c.threshold, c.limit, r)
             THEN SearchReturns(c, r)
             ELSE [c EXCEPT !.cands = Tail(c.cands), !.results = r]]
    /\ UNCHANGED <<modelVars, dbVars, txVars, now, tie_order>>

\* Mutant of UpdateCall: no existence check.
UpdateCallUnchecked(p, memory_id, content, metadata) ==
    /\ call[p].pc = "idle"
    /\ call' = [call EXCEPT ![p] =
         [Idle EXCEPT !.op = "update_memory", !.memory_id = memory_id,
                      !.content = content, !.metadata = metadata,
                      !.pc = "embed"]]
    /\ UNCHANGED <<modelVars, dbVars, txVars, now, tie_order>>

\* Mutant of UpdateCall: the connection begins its write transaction before
\* the existence check, and so before get_embedding.
UpdateCallBeginsFirst(p, memory_id, content, metadata) ==
    /\ call[p].pc = "idle"
    /\ writer = None
    /\ writer' = IF memory_id \in DOMAIN memories THEN p ELSE None
    /\ call' = [call EXCEPT ![p] =
         IF memory_id \in DOMAIN memories
         THEN [Idle EXCEPT !.op = "update_memory", !.memory_id = memory_id,
                           !.content = content, !.metadata = metadata,
                           !.pc = "embed"]
         ELSE [Idle EXCEPT !.op = "update_memory", !.memory_id = memory_id,
                           !.pc = "done",
                           !.ret = [status |-> "error", message |-> "not found",
                                    id |-> memory_id]]]
    /\ UNCHANGED <<modelVars, dbVars, wMemories, wVec, wSeq, now, tie_order>>

\* update_memory(memory_id, content, metadata) is called, lines 177-183: the
\* existence check.
UpdateCall(p, memory_id, content, metadata) ==
    /\ call[p].pc = "idle"
    /\ call' = [call EXCEPT ![p] =
         IF memory_id \in DOMAIN memories
         THEN [Idle EXCEPT !.op = "update_memory", !.memory_id = memory_id,
                           !.content = content, !.metadata = metadata,
                           !.pc = "embed"]
         ELSE [Idle EXCEPT !.op = "update_memory", !.memory_id = memory_id,
                           !.pc = "done",
                           !.ret = [status |-> "error", message |-> "not found",
                                    id |-> memory_id]]]
    /\ UNCHANGED <<modelVars, dbVars, txVars, now, tie_order>>

\* delete_memory(memory_id) is called, lines 213-219: the existence check.
DeleteCall(p, memory_id) ==
    /\ call[p].pc = "idle"
    /\ call' = [call EXCEPT ![p] =
         IF memory_id \in DOMAIN memories
         THEN [Idle EXCEPT !.op = "delete_memory", !.memory_id = memory_id,
                           !.pc = "delete_vec"]
         ELSE [Idle EXCEPT !.op = "delete_memory", !.memory_id = memory_id,
                           !.pc = "done",
                           !.ret = [status |-> "error", message |-> "not found",
                                    id |-> memory_id]]]
    /\ UNCHANGED <<modelVars, dbVars, txVars, now, tie_order>>

\* create_memory lines 139-141 and update_memory lines 185-188:
\* get_embedding(content) waits for the event; update_memory then reads the
\* clock for updated_at.
Embed(p) ==
    /\ call[p].pc = "embed"
    /\ model_ready
    /\ LET out == EmbeddingOutcome(call[p].content)
       IN  call' = [call EXCEPT ![p] =
             IF out.status = "ok"
             THEN [@ EXCEPT !.embedding = out.vector,
                            !.stamp = IF call[p].op = "update_memory"
                                      THEN now ELSE None,
                            !.pc = IF call[p].op = "update_memory"
                                   THEN "update_memories" ELSE "insert_memories"]
             ELSE Raised(p, out.error, out.cause)]
    /\ UNCHANGED <<modelVars, dbVars, txVars, now, tie_order>>


\* A row of table memories.
Row(content, blob, metadata, created_at, updated_at) ==
    [content |-> content, embedding |-> blob, metadata |-> metadata,
     created_at |-> created_at, updated_at |-> updated_at]

\* The first write statement of a connection begins its transaction, which
\* needs SQLite's write lock: free, or already this connection's.
MayWrite(p) == writer \in {None, p}

\* Mutant of InsertMemories: the id column without AUTOINCREMENT, where the
\* next id is one more than the largest id in the table.
InsertMemoriesReusesIds(p) ==
    /\ call[p].pc = "insert_memories"
    /\ MayWrite(p)
    /\ LET c == call[p]
           top == IF DOMAIN wMemories = {} THEN 0
                  ELSE CHOOSE m \in DOMAIN wMemories :
                         \A i \in DOMAIN wMemories : i <= m
           id == top + 1
       IN  /\ wSeq' = IF id > wSeq THEN id ELSE wSeq
           /\ wMemories' = Put(wMemories, id,
                Row(c.content, embedding_to_blob(c.embedding),
                    metadata_json(c.metadata), now, now))
           /\ call' = [call EXCEPT ![p] =
                [c EXCEPT !.memory_id = id, !.wrote = TRUE, !.pc = "insert_vec"]]
    /\ writer' = p
    /\ UNCHANGED <<modelVars, dbVars, wVec, now, tie_order>>

\* create_memory, lines 146-150: INSERT INTO memories.  AUTOINCREMENT hands
\* out the next id; created_at and updated_at default to CURRENT_TIMESTAMP.
InsertMemories(p) ==
    /\ call[p].pc = "insert_memories"
    /\ MayWrite(p)
    /\ LET c == call[p]
           id == wSeq + 1
       IN  /\ wSeq' = id
           /\ wMemories' = Put(wMemories, id,
                Row(c.content, embedding_to_blob(c.embedding),
                    metadata_json(c.metadata), now, now))
           /\ call' = [call EXCEPT ![p] =
                [c EXCEPT !.memory_id = id, !.wrote = TRUE, !.pc = "insert_vec"]]
    /\ writer' = p
    /\ UNCHANGED <<modelVars, dbVars, wVec, now, tie_order>>

\* create_memory, lines 152-155: INSERT INTO vec_memories, or the statement
\* fails (a vector of another dimension than the column's, an I/O error).
InsertVec(p) ==
    /\ call[p].pc = "insert_vec"
    /\ \/ /\ wVec' = Put(wVec, call[p].memory_id,
                         embedding_to_blob(call[p].embedding))
          /\ call' = [call EXCEPT ![p] = [@ EXCEPT !.pc = "commit"]]
       \/ /\ UNCHANGED wVec
          /\ call' = [call EXCEPT ![p] = Raised(p, "sqlite3.Error", None)]
    /\ UNCHANGED <<modelVars, dbVars, writer, wMemories, wSeq, now, tie_order>>

\* Mutant of UpdateMemories: the UPDATE sets created_at as well.
UpdateMemoriesSetsCreated(p) ==
    /\ call[p].pc = "update_memories"
    /\ MayWrite(p)
    /\ LET c == call[p]
       IN  /\ wMemories' =
                IF c.memory_id \in DOMAIN wMemories
                THEN [wMemories EXCEPT ![c.memory_id] =
                        Row(c.content, embedding_to_blob(c.embedding),
                            metadata_json(c.metadata), c.stamp, c.stamp)]
                ELSE wMemories
           /\ call' = [call EXCEPT ![p] =
                [c EXCEPT !.wrote = TRUE, !.pc = "update_vec"]]
    /\ writer' = p
    /\ UNCHANGED <<modelVars, dbVars, wVec, wSeq, now, tie_order>>

\* update_memory, lines 190-193: UPDATE memories ... WHERE id = ?.
UpdateMemories(p) ==
    /\ call[p].pc = "update_memories"
    /\ MayWrite(p)
    /\ LET c == call[p]
       IN  /\ wMemories' =
                IF c.memory_id \in DOMAIN wMemories
                THEN [wMemories EXCEPT ![c.memory_id] =
                        Row(c.content, embedding_to_blob(c.embedding),
                            metadata_json(c.metadata), @.created_at, c.stamp)]
                ELSE wMemories
           /\ call' = [call EXCEPT ![p] =
                [c EXCEPT !.wrote = TRUE, !.pc = "update_vec"]]
    /\ writer' = p
    /\ UNCHANGED <<modelVars, dbVars, wVec, wSeq, now, tie_order>>

\* Mutant of UpdateVec: the vector entry keeps the old embedding.
UpdateVecSkips(p) ==
    /\ call[p].pc = "update_vec"
    /\ wVec' = wVec
    /\ call' = [call EXCEPT ![p] = [@ EXCEPT !.pc = "commit"]]
    /\ UNCHANGED <<modelVars, dbVars, writer, wMemories, wSeq, now, tie_order>>

\* update_memory, lines 195-198: UPDATE vec_memories ... WHERE rowid = ?, or
\* the statement fails.
UpdateVec(p) ==
    /\ call[p].pc = "update_vec"
    /\ \/ /\ wVec' = IF call[p].memory_id \in DOMAIN wVec
                     THEN [wVec EXCEPT ![call[p].memory_id] =
                             embedding_to_blob(call[p].embedding)]
                     ELSE wVec
          /\ call' = [call EXCEPT ![p] = [@ EXCEPT !.pc = "commit"]]
       \/ /\ UNCHANGED wVec
          /\ call' = [call EXCEPT ![p] = Raised(p, "sqlite3.Error", None)]
    /\ UNCHANGED <<modelVars, dbVars, writer, wMemories, wSeq, now, tie_order>>

\* Mutant of DeleteVec: the vector entry is left in place.
DeleteVecSkips(p) ==
    /\ call[p].pc = "delete_vec"
    /\ MayWrite(p)
    /\ wVec' = wVec
    /\ call' = [call EXCEPT ![p] =
         [@ EXCEPT !.wrote = TRUE, !.pc = "delete_memories"]]
    /\ writer' = p
    /\ UNCHANGED <<modelVars, dbVars, wMemories, wSeq, now, tie_order>>

\* delete_memory, line 221: DELETE FROM vec_memories WHERE rowid = ?.
DeleteVec(p) ==
    /\ call[p].pc = "delete_vec"
    /\ MayWrite(p)
    /\ wVec' = Remove(wVec, call[p].memory_id)
    /\ call' = [call EXCEPT ![p] =
         [@ EXCEPT !.wrote = TRUE, !.pc = "delete_memories"]]
    /\ writer' = p
    /\ UNCHANGED <<modelVars, dbVars, wMemories, wSeq, now, tie_order>>

\* Mutant of DeleteMemories: the record row is left in place.
DeleteMemoriesSkips(p) ==
    /\ call[p].pc = "delete_memories"
    /\ wMemories' = wMemories
    /\ call' = [call EXCEPT ![p] = [@ EXCEPT !.pc = "commit"]]
    /\ UNCHANGED <<modelVars, dbVars, writer, wVec, wSeq, now, tie_order>>

\* delete_memory, line 222: DELETE FROM memories WHERE id = ?, or the
\* statement fails.
DeleteMemories(p) ==
    /\ call[p].pc = "delete_memories"
    /\ \/ /\ wMemories' = Remove(wMemories, call[p].memory_id)
          /\ call' = [call EXCEPT ![p] = [@ EXCEPT !.pc = "commit"]]
       \/ /\ UNCHANGED wMemories
          /\ call' = [call EXCEPT ![p] = Raised(p, "sqlite3.Error", None)]
    /\ UNCHANGED <<modelVars, dbVars, writer, wVec, wSeq, now, tie_order>>

\* The first write statement of p finds the write lock held by another
\* connection for longer than the busy timeout: "database is locked".
BusyTimeout(p) ==
    /\ call[p].pc \in {"insert_memories", "update_memories", "delete_vec"}
    /\ ~MayWrite(p)
    /\ call' = [call EXCEPT ![p] = Raised(p, "database is locked", None)]
    /\ UNCHANGED <<modelVars, dbVars, txVars, now, tie_order>>

\* What conn.commit() makes of the tables: the transaction's state.
Committed == <<wMemories, wVec, wSeq>>

\* The caller's record after its commit: update_memory and delete_memory
\* close and return, create_memory goes on to read created_at back.
AfterCommit(c) ==
    IF c.op = "create_memory"
    THEN [c EXCEPT !.pc = "select_created_at", !.embedding = <<>>]
    ELSE IF c.op = "update_memory"
    THEN [c EXCEPT !.pc = "done", !.embedding = <<>>,
                   !.ret = [status |-> "updated", id |-> c.memory_id,
                            content |-> c.content, updated_at |-> c.stamp]]
    ELSE [c EXCEPT !.pc = "done",
                   !.ret = [status |-> "deleted", id |-> c.memory_id]]

\* Caller q is inside the duplicate guard of create_memory (lines 126-137).
\* call[q].disturbed records, for the statement of the guard's properties,
\* that another connection committed while the guard was running.
InGuard(q) ==
    /\ call[q].op = "create_memory"
    /\ call[q].pc \in {"search_embed", "search_knn", "search_hydrate"}

\* conn.commit(), lines 157, 200 and 224: both tables' changes become the
\* committed state together and the write lock is released.
Commit(p) ==
    /\ call[p].pc = "commit"
    /\ writer = p
    /\ memories' = Committed[1]
    /\ vec_memories' = Committed[2]
    /\ sqlite_sequence' = Committed[3]
    /\ writer' = None
    /\ call' = [q \in Callers |->
                  IF q = p THEN AfterCommit(call[p])
                  ELSE IF InGuard(q) THEN [call[q] EXCEPT !.disturbed = TRUE]
                  ELSE call[q]]
    /\ UNCHANGED <<modelVars, wMemories, wVec, wSeq, now, tie_order>>

\* conn.commit() fails (disk full, I/O error): the transaction stays open.
CommitFails(p) ==
    /\ call[p].pc = "commit"
    /\ writer = p
    /\ call' = [call EXCEPT ![p] = Raised(p, "sqlite3.Error", None)]
    /\ UNCHANGED <<modelVars, dbVars, txVars, now, tie_order>>

\* Mutant of RolledBack: the statements of the abandoned transaction stay.
RolledBackKeepsWrites == <<wMemories, wVec, wSeq>>

\* What the tables are once an uncommitted transaction's connection is gone:
\* SQLite rolls the transaction back.
RolledBack == <<memories, vec_memories, sqlite_sequence>>

\* The connection of a call that raised is finalized: its open transaction
\* is rolled back and the write lock released.
ConnectionFinalized(p) ==
    /\ call[p].pc = "raised"
    /\ writer = p
    /\ wMemories' = RolledBack[1]
    /\ wVec' = RolledBack[2]
    /\ wSeq' = RolledBack[3]
    /\ writer' = None
    /\ call' = [call EXCEPT ![p] = [@ EXCEPT !.pc = "done", !.embedding = <<>>]]
    /\ UNCHANGED <<modelVars, dbVars, now, tie_order>>

\* create_memory, lines 159-170: created_at is read back (or the clock, when
\* the row is gone) and the call returns 'stored'.
SelectCreatedAt(p) ==
    /\ call[p].pc = "select_created_at"
    /\ LET c == call[p]
           created_at == IF c.memory_id \in DOMAIN memories
                         THEN memories[c.memory_id].created_at ELSE now
       IN  call' = [call EXCEPT ![p] =
             [c EXCEPT !.pc = "done",
                       !.ret = [status |-> "stored", id |-> c.memory_id,
                                content |-> c.content, created_at |-> created_at]]]
    /\ UNCHANGED <<modelVars, dbVars, txVars, now, tie_order>>

\* The caller takes the result and is free for its next call.
Return(p) ==
    /\ call[p].pc = "done"
    /\ call' = [call EXCEPT ![p] = Idle]
    /\ UNCHANGED <<modelVars, dbVars, txVars, now, tie_order>>

\* get_embedding(text) is called directly (lines 45-58): with the event set
\* it runs through, otherwise the caller is blocked in _model_ready.wait().
GetEmbeddingCall(p, text) ==
    /\ call[p].pc = "idle"
    /\ call' = [call EXCEPT ![p] =
         IF model_ready
         THEN [Idle EXCEPT !.op = "get_embedding", !.content = text,
                           !.pc = "done", !.ret = EmbeddingOutcome(text)]
         ELSE [Idle EXCEPT !.op = "get_embedding", !.content = text,
                           !.pc = "wait", !.waited = TRUE]]
    /\ UNCHANGED <<modelVars, dbVars, txVars, now, tie_order>>

\* get_embedding, lines 51-58: the event is set and wait() returns.
GetEmbedding(p) ==
    /\ call[p].pc = "wait"
    /\ call[p].op = "get_embedding"
    /\ model_ready
    /\ call' = [call EXCEPT ![p] =
         [@ EXCEPT !.pc = "done", !.ret = EmbeddingOutcome(call[p].content)]]
    /\ UNCHANGED <<modelVars, dbVars, txVars, now, tie_order>>

\* get_model_info() is called (lines 77-88): with the event set it runs
\* through, otherwise the caller is blocked in _model_ready.wait().
GetModelInfoCall(p) ==
    /\ call[p].pc = "idle"
    /\ call' = [call EXCEPT ![p] =
         IF model_ready
         THEN [Idle EXCEPT !.op = "get_model_info", !.pc = "done",
                           !.ret = ModelInfoOutcome]
         ELSE [Idle EXCEPT !.op = "get_model_info", !.pc = "wait",
                           !.waited = TRUE]]
    /\ UNCHANGED <<modelVars, dbVars, txVars, now, tie_order>>

\* get_model_info, lines 83-88: the event is set and wait() returns.
GetModelInfo(p) ==
    /\ call[p].pc = "wait"
    /\ call[p].op = "get_model_info"
    /\ model_ready
    /\ call' = [call EXCEPT ![p] = [@ EXCEPT !.pc = "done", !.ret = ModelInfoOutcome]]
    /\ UNCHANGED <<modelVars, dbVars, txVars, now, tie_order>>

\* What wait_for_model() does once _model_ready.wait() has returned: raise
\* _model_error, or return None.
WaitOutcome ==
    IF model_error # None
    THEN [status |-> "raised", error |-> "model_error", cause |-> model_error]
    ELSE [status |-> "returned"]

\* wait_for_model() is called (lines 91-95): with the event set it runs
\* through, otherwise the caller is blocked in _model_ready.wait().
WaitForModelCall(p) ==
    /\ call[p].pc = "idle"
    /\ call' = [call EXCEPT ![p] =
         IF model_ready
         THEN [Idle EXCEPT !.op = "wait_for_model", !.pc = "done",
                           !.ret = WaitOutcome]
         ELSE [Idle EXCEPT !.op = "wait_for_model", !.pc = "wait",
                           !.waited = TRUE]]
    /\ UNCHANGED <<modelVars, dbVars, txVars, now, tie_order>>

\* wait_for_model, lines 93-95: the event is set and wait() returns.
WaitForModel(p) ==
    /\ call[p].pc = "wait"
    /\ call[p].op = "wait_for_model"
    /\ model_ready
    /\ call' = [call EXCEPT ![p] = [@ EXCEPT !.pc = "done", !.ret = WaitOutcome]]
    /\ UNCHANGED <<modelVars, dbVars, txVars, now, tie_order>>

\* One entry of the memories list of list_memories, lines 251-257.
ListEntry(row, id) ==
    [id |-> id, content |-> row.content, created_at |-> row.created_at,
     updated_at |-> row.updated_at, metadata |-> metadata_out(row.metadata)]

\* list_memories(page, limit) is called, lines 232-236: SELECT COUNT(*).
ListCall(p, page, limit) ==
    /\ call[p].pc = "idle"
    /\ call' = [call EXCEPT ![p] =
         [Idle EXCEPT !.op = "list_memories", !.page = page, !.limit = limit,
                      !.total = ListTotal(memories), !.pc = "list_select"]]
    /\ UNCHANGED <<modelVars, dbVars, txVars, now, tie_order>>

\* Mutant of ListSelect: the page query is held back until the model event
\* is set.
ListSelectWaits(p) ==
    /\ model_ready
    /\ call[p].pc = "list_select"
    /\ \E order \in ListOrders(memories) :
         LET c == call[p]
             ids == ListPage(order, c.page, c.limit)
         IN  call' = [call EXCEPT ![p] =
               [c EXCEPT !.pc = "done",
                         !.ret = [status |-> "listed",
                                  memories |-> [i \in DOMAIN ids |->
                                                  ListEntry(memories[ids[i]], ids[i])],
                                  total |-> c.total,
                                  page |-> c.page,
                                  total_pages |-> TotalPages(c.total, c.limit)]]]
    /\ UNCHANGED <<modelVars, dbVars, txVars, now, tie_order>>

\* list_memories, lines 238-268: the page query, total_pages, the result.
ListSelect(p) ==
    /\ call[p].pc = "list_select"
    /\ \E order \in ListOrders(memories) :
         LET c == call[p]
             ids == ListPage(order, c.page, c.limit)
         IN  call' = [call EXCEPT ![p] =
               [c EXCEPT !.pc = "done",
                         !.ret = [status |-> "listed",
                                  memories |-> [i \in DOMAIN ids |->
                                                  ListEntry(memories[ids[i]], ids[i])],
                                  total |-> c.total,
                                  page |-> c.page,
                                  total_pages |-> TotalPages(c.total, c.limit)]]]
    /\ UNCHANGED <<modelVars, dbVars, txVars, now, tie_order>>

\* embedding_to_blob(v) is called on a vector v, and blob_to_embedding on
\* the blob it returns.
BlobCall(p, v) ==
    /\ call[p].pc = "idle"
    /\ call' = [call EXCEPT ![p] =
         [Idle EXCEPT !.op = "embedding_to_blob", !.embedding = v,
                      !.pc = "to_blob"]]
    /\ UNCHANGED <<modelVars, dbVars, txVars, now, tie_order>>

ToBlob(p) ==
    /\ call[p].pc = "to_blob"
    /\ call' = [call EXCEPT ![p] =
         [@ EXCEPT !.pc = "to_embedding",
                   !.ret = [status |-> "blob",
                            blob |-> embedding_to_blob(call[p].embedding)]]]
    /\ UNCHANGED <<modelVars, dbVars, txVars, now, tie_order>>

ToEmbedding(p) ==
    /\ call[p].pc = "to_embedding"
    /\ call' = [call EXCEPT ![p] =
         [@ EXCEPT !.op = "blob_to_embedding", !.pc = "done",
                   !.ret = [status |-> "recovered",
                            blob |-> call[p].ret.blob,
                            vector |-> blob_to_embedding(call[p].ret.blob)]]]
    /\ UNCHANGED <<modelVars, dbVars, txVars, now, tie_order>>

\* Time passes.
Tick ==
    /\ now < MaxTime
    /\ now' = now + 1
    /\ UNCHANGED <<modelVars, dbVars, txVars, tie_order, call>>


\* The inputs the callers draw from.
SpecMetadatas == {"dict(k=v)"}

\* The embedding model alone, under any use of the module's functions.
ModelNext ==
    \/ \E p \in Callers : StartModelLoading(p)
    \/ \E p \in Callers : SyncLoadReturn(p)
    \/ \E l \in Loaders : LoadConstruct(l)
    \/ \E l \in Loaders : LoadSetName(l)
    \/ \E l \in Loaders : LoadSetDimension(l)
    \/ \E l \in Loaders : LoadSetReady(l)
    \/ \E l \in Loaders : LoadExcept(l)
    \/ \E l \in Loaders : LoadExceptSet(l)
    \/ \E p \in Callers, c \in Contents : GetEmbeddingCall(p, c)
    \/ \E p \in Callers : GetEmbedding(p)
    \/ \E p \in Callers : GetModelInfoCall(p)
    \/ \E p \in Callers : GetModelInfo(p)
    \/ \E p \in Callers : Return(p)

SpecModel == Init /\ [][ModelNext]_vars

\* The server as main() runs it: start_model_loading, then the callers'
\* requests against the store.
Next ==
    \/ \E p \in Callers : loads = 0 /\ StartModelLoading(p)
    \/ \E p \in Callers : SyncLoadReturn(p)
    \/ \E l \in Loaders : LoadConstruct(l)
    \/ \E l \in Loaders : LoadSetName(l)
    \/ \E l \in Loaders : LoadSetDimension(l)
    \/ \E l \in Loaders : LoadSetReady(l)
    \/ \E l \in Loaders : LoadExcept(l)
    \/ \E l \in Loaders : LoadExceptSet(l)
    \/ \E p \in Callers, c \in Contents, m \in SpecMetadatas, f \in BOOLEAN :
         CreateCall(p, c, m, f)
    \/ \E p \in Callers : SearchEmbed(p)
    \/ \E p \in Callers : SearchKnn(p)
    \/ \E p \in Callers : SearchHydrate(p)
    \/ \E p \in Callers : Embed(p)
    \/ \E p \in Callers : InsertMemories(p)
    \/ \E p \in Callers : InsertVec(p)
    \/ \E p \in Callers, id \in Ids, c \in Contents, m \in SpecMetadatas :
         UpdateCall(p, id, c, m)
    \/ \E p \in Callers : UpdateMemories(p)
    \/ \E p \in Callers : UpdateVec(p)
    \/ \E p \in Callers, id \in Ids : DeleteCall(p, id)
    \/ \E p \in Callers : DeleteVec(p)
    \/ \E p \in Callers : DeleteMemories(p)
    \/ \E p \in Callers : BusyTimeout(p)
    \/ \E p \in Callers : Commit(p)
    \/ \E p \in Callers : CommitFails(p)
    \/ \E p \in Callers : ConnectionFinalized(p)
    \/ \E p \in Callers : SelectCreatedAt(p)
    \/ \E p \in Callers : Return(p)

Spec == Init /\ [][Next]_vars

(***************************************************************************)
(* One client working on an existing store with the model loaded: it       *)
(* searches, lists, updates and deletes, one operation after the other.    *)
(***************************************************************************)
SeqCallers == {1}
SeqIds == 1..MaxRows
SeqLimits == 1..MaxLimit
SeqPages == 1..MaxPage
SeqQueries == {1, 3}
SeqThresholds == {-50, 0, 50, 100}

\* The stores MaxRows forced creates leave behind: ids in creation order,
\* created_at never decreasing with the id.
SeqStores ==
    {mem \in [SeqIds -> {Row(((i - 1) % NumContents) + 1,
                             embedding_to_blob(Encode(((i - 1) % NumContents) + 1)),
                             metadata_json("None"), t, t) :
                         i \in SeqIds, t \in Times}] :
        /\ \A i \in SeqIds : mem[i].content = ((i - 1) % NumContents) + 1
        /\ \A i, j \in SeqIds : i < j => mem[i].created_at <= mem[j].created_at}

InitSeq ==
    /\ model = 1
    /\ model_name = 1
    /\ model_dimension = EMBEDDING_DIM
    /\ model_ready = TRUE
    /\ model_error = None
    /\ async_loading = FALSE
    /\ loads = 1
    /\ loader = [l \in Loaders |-> IF l = 1 THEN "done" ELSE "unstarted"]
    /\ memories \in SeqStores
    /\ vec_memories = [i \in DOMAIN memories |-> memories[i].embedding]
    /\ sqlite_sequence = MaxRows
    /\ writer = None
    /\ wMemories = memories
    /\ wVec = vec_memories
    /\ wSeq = sqlite_sequence
    /\ now = MaxTime
    /\ tie_order \in TieOrders
    /\ call = [p \in Callers |-> Idle]

NextSeq ==
    \/ \E p \in SeqCallers, q \in SeqQueries, l \in SeqLimits, t \in SeqThresholds :
         SearchCall(p, q, l, t)
    \/ \E p \in SeqCallers : SearchEmbed(p)
    \/ \E p \in SeqCallers : SearchKnn(p)
    \/ \E p \in SeqCallers : SearchHydrate(p)
    \/ \E p \in SeqCallers, page \in SeqPages, l \in SeqLimits : ListCall(p, page, l)
    \/ \E p \in SeqCallers : ListSelect(p)
    \/ \E p \in SeqCallers, id \in SeqIds, c \in Contents, m \in SpecMetadatas :
         UpdateCall(p, id, c, m)
    \/ \E p \in SeqCallers : Embed(p)
    \/ \E p \in SeqCallers : UpdateMemories(p)
    \/ \E p \in SeqCallers : UpdateVec(p)
    \/ \E p \in SeqCallers, id \in SeqIds : DeleteCall(p, id)
    \/ \E p \in SeqCallers : DeleteVec(p)
    \/ \E p \in SeqCallers : DeleteMemories(p)
    \/ \E p \in SeqCallers : Commit(p)
    \/ \E p \in SeqCallers : CommitFails(p)
    \/ \E p \in SeqCallers : ConnectionFinalized(p)
    \/ \E p \in SeqCallers : Return(p)

SpecSeq == InitSeq /\ [][NextSeq]_vars

(***************************************************************************)
(* One thread loads the model while another works on an existing store     *)
(* with the operations that may or may not need an embedding.              *)
(***************************************************************************)
AvailIds == 1..(MaxRows + 1)
AvailPages == {1, 2}
AvailLimits == {1, 2}

InitAvail ==
    /\ model = None
    /\ model_name = None
    /\ model_dimension = None
    /\ model_ready = FALSE
    /\ model_error = None
    /\ async_loading \in BOOLEAN
    /\ loads = 0
    /\ loader = [l \in Loaders |-> "unstarted"]
    /\ memories \in SeqStores
    /\ vec_memories = [i \in DOMAIN memories |-> memories[i].embedding]
    /\ sqlite_sequence = MaxRows
    /\ writer = None
    /\ wMemories = memories
    /\ wVec = vec_memories
    /\ wSeq = sqlite_sequence
    /\ now = MaxTime
    /\ tie_order \in TieOrders
    /\ call = [p \in Callers |-> Idle]

NextAvail ==
    \/ \E p \in Callers \ SeqCallers : loads = 0 /\ StartModelLoading(p)
    \/ \E p \in Callers \ SeqCallers : SyncLoadReturn(p)
    \/ \E l \in Loaders : LoadConstruct(l)
    \/ \E l \in Loaders : LoadSetName(l)
    \/ \E l \in Loaders : LoadSetDimension(l)
    \/ \E l \in Loaders : LoadSetReady(l)
    \/ \E l \in Loaders : LoadExcept(l)
    \/ \E l \in Loaders : LoadExceptSet(l)
    \/ \E p \in SeqCallers, page \in AvailPages, l \in AvailLimits : ListCall(p, page, l)
    \/ \E p \in SeqCallers : ListSelect(p)
    \/ \E p \in SeqCallers, id \in AvailIds, c \in Contents, m \in SpecMetadatas :
         UpdateCall(p, id, c, m)
    \/ \E p \in SeqCallers : Embed(p)
    \/ \E p \in SeqCallers : UpdateMemories(p)
    \/ \E p \in SeqCallers : UpdateVec(p)
    \/ \E p \in SeqCallers, id \in AvailIds : DeleteCall(p, id)
    \/ \E p \in SeqCallers : DeleteVec(p)
    \/ \E p \in SeqCallers : DeleteMemories(p)
    \/ \E p \in SeqCallers : Commit(p)
    \/ \E p \in SeqCallers : CommitFails(p)
    \/ \E p \in SeqCallers : ConnectionFinalized(p)
    \/ \E p \in Callers : Return(p)

SpecAvail == InitAvail /\ [][NextAvail]_vars

(***************************************************************************)
(* A reader and a writer, each a thread of its own (the MCP server and the *)
(* web UI), on an existing store with the model loaded: the reader         *)
(* searches and lists while the writer updates and deletes.                *)
(***************************************************************************)
Readers == SeqCallers
Writers == Callers \ SeqCallers
RWThresholds == {0, 50}
RWIds == {1, 2}

NextRW ==
    \/ \E p \in Readers, q \in SeqQueries, l \in AvailLimits, t \in RWThresholds :
         SearchCall(p, q, l, t)
    \/ \E p \in Readers : SearchEmbed(p)
    \/ \E p \in Readers : SearchKnn(p)
    \/ \E p \in Readers : SearchHydrate(p)
    \/ \E p \in Readers, page \in AvailPages, l \in AvailLimits : ListCall(p, page, l)
    \/ \E p \in Readers : ListSelect(p)
    \/ \E p \in Writers, id \in RWIds, c \in Contents, m \in SpecMetadatas :
         UpdateCall(p, id, c, m)
    \/ \E p \in Writers : Embed(p)
    \/ \E p \in Writers : UpdateMemories(p)
    \/ \E p \in Writers : UpdateVec(p)
    \/ \E p \in Writers, id \in RWIds : DeleteCall(p, id)
    \/ \E p \in Writers : DeleteVec(p)
    \/ \E p \in Writers : DeleteMemories(p)
    \/ \E p \in Writers : Commit(p)
    \/ \E p \in Writers : CommitFails(p)
    \/ \E p \in Writers : ConnectionFinalized(p)
    \/ \E p \in Callers : Return(p)

SpecRW == InitSeq /\ [][NextRW]_vars

(***************************************************************************)
(* A new store with the model loaded.                                      *)
(***************************************************************************)
InitLife ==
    /\ model = 1
    /\ model_name = 1
    /\ model_dimension = EMBEDDING_DIM
    /\ model_ready = TRUE
    /\ model_error = None
    /\ async_loading = FALSE
    /\ loads = 1
    /\ loader = [l \in Loaders |-> IF l = 1 THEN "done" ELSE "unstarted"]
    /\ memories = EmptyTable
    /\ vec_memories = EmptyTable
    /\ sqlite_sequence = 0
    /\ writer = None
    /\ wMemories = EmptyTable
    /\ wVec = EmptyTable
    /\ wSeq = 0
    /\ now = 0
    /\ tie_order \in TieOrders
    /\ call = [p \in Callers |-> Idle]

\* The writer creates (with force) and updates records with any metadata,
\* the reader lists and searches.
MetaContents == {1}
MetaLimits == {MaxId}
MetaPages == {1}
MetaThresholds == {0}

NextMeta ==
    \/ \E p \in Writers, c \in MetaContents, m \in Metadatas : CreateCall(p, c, m, TRUE)
    \/ \E p \in Writers : Embed(p)
    \/ \E p \in Writers : InsertMemories(p)
    \/ \E p \in Writers : InsertVec(p)
    \/ \E p \in Writers : SelectCreatedAt(p)
    \/ \E p \in Writers, id \in Ids, c \in MetaContents, m \in Metadatas :
         UpdateCall(p, id, c, m)
    \/ \E p \in Writers : UpdateMemories(p)
    \/ \E p \in Writers : UpdateVec(p)
    \/ \E p \in Writers : Commit(p)
    \/ \E p \in Writers : CommitFails(p)
    \/ \E p \in Writers : ConnectionFinalized(p)
    \/ \E p \in Readers, q \in MetaContents, l \in MetaLimits, t \in MetaThresholds :
         SearchCall(p, q, l, t)
    \/ \E p \in Readers : SearchEmbed(p)
    \/ \E p \in Readers : SearchKnn(p)
    \/ \E p \in Readers : SearchHydrate(p)
    \/ \E p \in Readers, page \in MetaPages, l \in MetaLimits : ListCall(p, page, l)
    \/ \E p \in Readers : ListSelect(p)
    \/ \E p \in Callers : Return(p)

SpecMeta == InitLife /\ [][NextMeta]_vars

\* Callers create (with force), update and delete records while the clock
\* runs.
NextLife ==
    \/ \E p \in Callers, c \in MetaContents, m \in SpecMetadatas : CreateCall(p, c, m, TRUE)
    \/ \E p \in Callers : Embed(p)
    \/ \E p \in Callers : InsertMemories(p)
    \/ \E p \in Callers : InsertVec(p)
    \/ \E p \in Callers : SelectCreatedAt(p)
    \/ \E p \in Callers, id \in Ids, c \in MetaContents, m \in SpecMetadatas :
         UpdateCall(p, id, c, m)
    \/ \E p \in Callers : UpdateMemories(p)
    \/ \E p \in Callers : UpdateVec(p)
    \/ \E p \in Callers, id \in Ids : DeleteCall(p, id)
    \/ \E p \in Callers : DeleteVec(p)
    \/ \E p \in Callers : DeleteMemories(p)
    \/ \E p \in Callers : BusyTimeout(p)
    \/ \E p \in Callers : Commit(p)
    \/ \E p \in Callers : CommitFails(p)
    \/ \E p \in Callers : ConnectionFinalized(p)
    \/ \E p \in Callers : Return(p)
    \/ Tick

SpecLife == InitLife /\ [][NextLife]_vars

(***************************************************************************)
(* The two conversions between vectors and blobs, on vectors of up to      *)
(* MaxDim floats around the end of the 24-bit significand.                 *)
(***************************************************************************)
FloatSamples == {0, -5, 13, Significand - 1, Significand + 1,
                 Significand + 2, -(Significand + 3)}

Vectors == UNION {[1..n -> FloatSamples] : n \in 0..MaxDim}

NextBlob ==
    \/ \E p \in SeqCallers, v \in Vectors : BlobCall(p, v)
    \/ \E p \in SeqCallers : ToBlob(p)
    \/ \E p \in SeqCallers : ToEmbedding(p)
    \/ \E p \in SeqCallers : Return(p)

SpecBlob == InitLife /\ [][NextBlob]_vars

(***************************************************************************)
(* One client that only searches the store, with limits around zero.       *)
(***************************************************************************)
EdgeLimits == {-1, 0, 1}

NextSearch ==
    \/ \E p \in SeqCallers, q \in SeqQueries, l \in EdgeLimits, t \in SeqThresholds :
         SearchCall(p, q, l, t)
    \/ \E p \in SeqCallers : SearchEmbed(p)
    \/ \E p \in SeqCallers : SearchKnn(p)
    \/ \E p \in SeqCallers : SearchKnnRejects(p)
    \/ \E p \in SeqCallers : SearchHydrate(p)
    \/ \E p \in SeqCallers : Return(p)

SpecSearch == InitSeq /\ [][NextSearch]_vars

(***************************************************************************)
(* Two callers on a new store with the model loaded, both creating records *)
(* with the duplicate guard on, from texts that are the same or near       *)
(* duplicates of each other.                                               *)
(***************************************************************************)
GuardContents == {1, 3}

NextGuard ==
    \/ \E p \in Callers, c \in GuardContents, m \in SpecMetadatas :
         CreateCall(p, c, m, FALSE)
    \/ \E p \in Callers : SearchEmbed(p)
    \/ \E p \in Callers : SearchKnn(p)
    \/ \E p \in Callers : SearchHydrate(p)
    \/ \E p \in Callers : Embed(p)
    \/ \E p \in Callers : InsertMemories(p)
    \/ \E p \in Callers : InsertVec(p)
    \/ \E p \in Callers : BusyTimeout(p)
    \/ \E p \in Callers : Commit(p)
    \/ \E p \in Callers : CommitFails(p)
    \/ \E p \in Callers : ConnectionFinalized(p)
    \/ \E p \in Callers : SelectCreatedAt(p)
    \/ \E p \in Callers : Return(p)

SpecGuard == InitLife /\ [][NextGuard]_vars

(***************************************************************************)
(* The embedding model under fair scheduling: a thread that can take its   *)
(* next step takes it.  Every statement of _load_model returns or raises,  *)
(* and a thread blocked in _model_ready.wait() runs on once the event is   *)
(* set (the event is never cleared).  When callers make their calls is     *)
(* left to them.                                                           *)
(***************************************************************************)
LoadNext ==
    \/ \E p \in Callers : StartModelLoading(p)
    \/ \E p \in Callers : SyncLoadReturn(p)
    \/ \E l \in Loaders : LoadConstruct(l)
    \/ \E l \in Loaders : LoadSetName(l)
    \/ \E l \in Loaders : LoadSetDimension(l)
    \/ \E l \in Loaders : LoadSetReady(l)
    \/ \E l \in Loaders : LoadExcept(l)
    \/ \E l \in Loaders : LoadExceptSet(l)
    \/ \E p \in Callers, c \in Contents : GetEmbeddingCall(p, c)
    \/ \E p \in Callers : GetEmbedding(p)
    \/ \E p \in Callers : GetModelInfoCall(p)
    \/ \E p \in Callers : GetModelInfo(p)
    \/ \E p \in Callers : WaitForModelCall(p)
    \/ \E p \in Callers : WaitForModel(p)
    \/ \E p \in Callers : Return(p)

LoadFairness ==
    /\ \A l \in Loaders :
          /\ WF_vars(LoadConstruct(l))
          /\ WF_vars(LoadSetName(l))
          /\ WF_vars(LoadSetDimension(l))
          /\ WF_vars(LoadSetReady(l))
          /\ WF_vars(LoadExcept(l))
          /\ WF_vars(LoadExceptSet(l))
    /\ \A p \in Callers :
          /\ WF_vars(SyncLoadReturn(p))
          /\ WF_vars(GetEmbedding(p))
          /\ WF_vars(GetModelInfo(p))
          /\ WF_vars(WaitForModel(p))

SpecLoad == Init /\ [][LoadNext]_vars /\ LoadFairness

(***************************************************************************)
(* Two callers on a new store with the model loaded: they create records   *)
(* with the duplicate guard on, search and list, while the clock runs.     *)
(***************************************************************************)
ReadLimits == {1, MaxId}
ReadThresholds == {0, DuplicateThreshold}

NextReads ==
    \/ \E p \in Callers, c \in GuardContents, m \in SpecMetadatas :
         CreateCall(p, c, m, FALSE)
    \/ \E p \in Callers, q \in GuardContents, l \in ReadLimits, t \in ReadThresholds :
         SearchCall(p, q, l, t)
    \/ \E p \in Callers : SearchEmbed(p)
    \/ \E p \in Callers : SearchKnn(p)
    \/ \E p \in Callers : SearchHydrate(p)
    \/ \E p \in Callers, page \in MetaPages, l \in ReadLimits : ListCall(p, page, l)
    \/ \E p \in Callers : ListSelect(p)
    \/ \E p \in Callers : Embed(p)
    \/ \E p \in Callers : InsertMemories(p)
    \/ \E p \in Callers : InsertVec(p)
    \/ \E p \in Callers : BusyTimeout(p)
    \/ \E p \in Callers : Commit(p)
    \/ \E p \in Callers : CommitFails(p)
    \/ \E p \in Callers : ConnectionFinalized(p)
    \/ \E p \in Callers : SelectCreatedAt(p)
    \/ \E p \in Callers : Return(p)
    \/ Tick

SpecReads == InitLife /\ [][NextReads]_vars

(***************************************************************************)
(* The server is started on a store that holds one record: the model is    *)
(* not loaded yet, and two callers create, update, delete and search while *)
(* it loads.                                                               *)
(***************************************************************************)
InitRestart ==
    /\ model = None
    /\ model_name = None
    /\ model_dimension = None
    /\ model_ready = FALSE
    /\ model_error = None
    /\ async_loading \in BOOLEAN
    /\ loads = 0
    /\ loader = [l \in Loaders |-> "unstarted"]
    /\ memories = Put(EmptyTable, 1,
                      Row(1, embedding_to_blob(Encode(1)), metadata_json("None"), 0, 0))
    /\ vec_memories = [i \in DOMAIN memories |-> memories[i].embedding]
    /\ sqlite_sequence = 1
    /\ writer = None
    /\ wMemories = memories
    /\ wVec = vec_memories
    /\ wSeq = sqlite_sequence
    /\ now = 0
    /\ tie_order \in TieOrders
    /\ call = [p \in Callers |-> Idle]

NextRestart ==
    \/ \E p \in Callers : loads = 0 /\ StartModelLoading(p)
    \/ \E p \in Callers : SyncLoadReturn(p)
    \/ \E l \in Loaders : LoadConstruct(l)
    \/ \E l \in Loaders : LoadSetName(l)
    \/ \E l \in Loaders : LoadSetDimension(l)
    \/ \E l \in Loaders : LoadSetReady(l)
    \/ \E l \in Loaders : LoadExcept(l)
    \/ \E l \in Loaders : LoadExceptSet(l)
    \/ \E p \in Callers, c \in MetaContents, m \in SpecMetadatas, f \in BOOLEAN :
         CreateCall(p, c, m, f)
    \/ \E p \in Callers, q \in MetaContents, l \in MetaLimits, t \in MetaThresholds :
         SearchCall(p, q, l, t)
    \/ \E p \in Callers : SearchEmbed(p)
    \/ \E p \in Callers : SearchKnn(p)
    \/ \E p \in Callers : SearchHydrate(p)
    \/ \E p \in Callers : Embed(p)
    \/ \E p \in Callers : InsertMemories(p)
    \/ \E p \in Callers : InsertVec(p)
    \/ \E p \in Callers, id \in Ids, c \in MetaContents, m \in SpecMetadatas :
         UpdateCall(p, id, c, m)
    \/ \E p \in Callers : UpdateMemories(p)
    \/ \E p \in Callers : UpdateVec(p)
    \/ \E p \in Callers, id \in Ids : DeleteCall(p, id)
    \/ \E p \in Callers : DeleteVec(p)
    \/ \E p \in Callers : DeleteMemories(p)
    \/ \E p \in Callers : BusyTimeout(p)
    \/ \E p \in Callers : Commit(p)
    \/ \E p \in Callers : CommitFails(p)
    \/ \E p \in Callers : ConnectionFinalized(p)
    \/ \E p \in Callers : SelectCreatedAt(p)
    \/ \E p \in Callers : Return(p)

SpecRestart == InitRestart /\ [][NextRestart]_vars

(***************************************************************************)
(* Properties                                                              *)
(***************************************************************************)

\* The ids a sequence of result entries or of ids mentions.
IdsOf(entries) == {entries[i].id : i \in DOMAIN entries}
Range(seq) == {seq[i] : i \in DOMAIN seq}

\* The embedding of stored row id, and its similarity to a text.
StoredEmbedding(mem, id) == blob_to_embedding(mem[id].embedding)
SimilarityTo(mem, id, text) == 2 * NormSq - DistSq(StoredEmbedding(mem, id), Encode(text))

\* C1: pairing invariant.  In every committed state, whatever the
\* interleaving of create_memory, update_memory and delete_memory calls, the
\* ids of table memories are exactly the rowids of vec_memories.
C1_PairingInvariant == DOMAIN memories = DOMAIN vec_memories

\* Two creates, one delete and an update have committed.
C1_Witness ==
    /\ sqlite_sequence >= 2
    /\ Cardinality(DOMAIN memories) = 1
    /\ \E p \in Callers : call[p].pc = "done" /\ call[p].ret.status = "updated"

\* C2: embedding sync.  In every committed state each record's stored
\* embedding equals its vector entry and is the embedding of the record's
\* current content; the commit of a successful update_memory(id, content)
\* installs the new content, the new row embedding and the new vector entry
\* together.
C2_InSync ==
    \A id \in DOMAIN memories :
        /\ id \in DOMAIN vec_memories
        /\ memories[id].embedding = vec_memories[id]
        /\ blob_to_embedding(vec_memories[id]) = Encode(memories[id].content)

C2_UpdateStep ==
    \A p \in Callers :
        (/\ call[p].op = "update_memory"
         /\ call[p].pc = "commit"
         /\ call'[p].pc = "done"
         /\ call'[p].ret.status = "updated"
         /\ call[p].memory_id \in DOMAIN memories')
        => LET id == call[p].memory_id
           IN  /\ memories'[id].content = call[p].content
               /\ memories'[id].embedding = embedding_to_blob(Encode(call[p].content))
               /\ vec_memories'[id] = embedding_to_blob(Encode(call[p].content))

C2_EmbeddingSync == []C2_InSync /\ [][C2_UpdateStep]_vars

\* An update has replaced the content a record was created with: the
\* creating call still holds its result, the updating call has returned.
C2_Witness ==
    \E p, q \in Callers :
        /\ call[p].pc = "done" /\ call[p].ret.status = "updated"
        /\ call[q].pc = "done" /\ call[q].ret.status = "stored"
        /\ call[q].ret.id = call[p].ret.id
        /\ call[q].ret.content # call[p].ret.content
        /\ call[p].ret.id \in DOMAIN memories
        /\ memories[call[p].ret.id].content = call[p].ret.content

\* C3: create_memory is atomic across both tables.  While a create that
\* failed after its INSERT INTO memories still has its transaction open, its
\* row is in neither committed table; from the failure to the end of its
\* connection the committed tables do not change; and once no connection
\* holds a transaction, nothing of an abandoned transaction is left: the
\* pending tables are the committed ones.
C3_NoPartialState ==
    /\ \A p \in Callers :
          (call[p].op = "create_memory" /\ call[p].pc = "raised")
          => /\ call[p].memory_id \notin DOMAIN memories
             /\ call[p].memory_id \notin DOMAIN vec_memories
    /\ writer = None =>
          <<wMemories, wVec, wSeq>> = <<memories, vec_memories, sqlite_sequence>>

C3_FailureStep ==
    \A p \in Callers :
        (/\ call[p].op = "create_memory"
         /\ call'[p].op = "create_memory"
         /\ call'[p].ret.status = "raised"
         /\ call'[p] # call[p])
        => /\ UNCHANGED dbVars
           /\ call'[p].pc = "done" =>
                \/ writer' # p /\ writer = writer' /\ ~call[p].wrote
                \/ /\ writer = p /\ writer' = None
                   /\ <<wMemories', wVec', wSeq'>> = <<memories, vec_memories, sqlite_sequence>>

C3_CreateAtomic == []C3_NoPartialState /\ [][C3_FailureStep]_vars

\* A create failed after its INSERT INTO memories, its connection is gone,
\* and the tables hold another call's record only.
C3_Witness ==
    \E p \in Callers :
        /\ call[p].op = "create_memory" /\ call[p].pc = "done"
        /\ call[p].ret.status = "raised" /\ call[p].wrote
        /\ DOMAIN memories = {1}
        /\ writer = None

\* C4: delete_memory(id) on an existing id removes the memories row and the
\* vec_memories entry in one commit, making the list total one less, and
\* returns 'deleted' with that id; after it the id is on no list_memories
\* page and in no search_memories result.
C4_DeleteStep ==
    \A p \in Callers :
        (/\ call[p].op = "delete_memory"
         /\ call[p].pc = "commit"
         /\ call'[p].pc = "done"
         /\ call[p].memory_id \in DOMAIN memories)
        => LET id == call[p].memory_id
           IN  /\ id \in DOMAIN vec_memories
               /\ id \notin DOMAIN memories'
               /\ id \notin DOMAIN vec_memories'
               /\ ListTotal(memories') = ListTotal(memories) - 1
               /\ call'[p].ret = [status |-> "deleted", id |-> id]

C4_Deleted ==
    \A p \in Callers :
        (call[p].pc = "done" /\ call[p].ret.status = "deleted")
        => LET id == call[p].ret.id
           IN  /\ id \notin DOMAIN memories
               /\ id \notin DOMAIN vec_memories
               /\ \A order \in ListOrders(memories) : id \notin Range(order)
               /\ \A query \in Contents, limit \in 1..(MaxId + 1),
                     threshold \in {-100, 0, 50, DuplicateThreshold} :
                     \A results \in SearchOn(memories, vec_memories, query,
                                             limit, threshold) :
                         id \notin IdsOf(results)

C4_DeleteRemovesBoth == []C4_Deleted /\ [][C4_DeleteStep]_vars

\* A delete has returned 'deleted' and another record is still stored.
C4_Witness ==
    \E p \in Callers :
        /\ call[p].pc = "done" /\ call[p].ret.status = "deleted"
        /\ DOMAIN memories # {}

\* C5: update_memory and delete_memory with an id that is not in table
\* memories return the result {status 'error', message '... not found'}
\* without raising, and leave both tables as they were.
C5_NotFoundStep ==
    \A p \in Callers :
        (/\ call[p].pc = "idle"
         /\ call'[p].op \in {"update_memory", "delete_memory"}
         /\ call'[p].memory_id \notin DOMAIN memories)
        => /\ call'[p].pc = "done"
           /\ call'[p].ret.status = "error"
           /\ call'[p].ret.message = "not found"
           /\ ~call'[p].wrote
           /\ UNCHANGED <<dbVars, txVars>>

C5_NotFound == [][C5_NotFoundStep]_vars

\* A not-found result was returned while a record is stored.
C5_Witness ==
    \E p \in Callers :
        /\ call[p].pc = "done" /\ call[p].ret.status = "error"
        /\ call[p].op = "update_memory"
        /\ DOMAIN memories # {}
        /\ call[p].memory_id \notin DOMAIN memories

\* The stored records whose similarity to text is at or above threshold.
Duplicates(mem, text, threshold) ==
    {id \in DOMAIN mem : ~BelowThreshold(SimilarityTo(mem, id, text), threshold)}

\* Caller p's duplicate guard comes to its decision in this step.
GuardDecides(p) ==
    /\ call[p].op = "create_memory"
    /\ call[p].pc \in {"search_knn", "search_hydrate"}
    /\ call'[p].pc \notin {"search_knn", "search_hydrate"}

\* C6: duplicate guard refusal.  A create_memory call with force=false, not
\* overtaken by another connection's commit, that finds an existing record
\* with similarity >= the duplicate threshold returns 'conflict_detected'
\* with a non-empty similar_memories list; every entry is an existing record
\* at or above the threshold, with its content and rounded similarity; and
\* the call has written no row to memories or vec_memories.
C6_RefusalStep ==
    \A p \in Callers :
        (/\ GuardDecides(p)
         /\ ~call[p].force
         /\ ~call[p].disturbed
         /\ Duplicates(memories, call[p].content, DuplicateThreshold) # {})
        => LET dups == Duplicates(memories, call[p].content, DuplicateThreshold)
               similar == call'[p].ret.similar_memories
           IN  /\ call'[p].pc = "done"
               /\ call'[p].ret.status = "conflict_detected"
               /\ Len(similar) >= 1
               /\ \A i \in DOMAIN similar :
                     /\ similar[i].id \in dups
                     /\ similar[i].content = memories[similar[i].id].content
                     /\ similar[i].similarity =
                          Round4(SimilarityTo(memories, similar[i].id, call[p].content))
               /\ ~call'[p].wrote
               /\ UNCHANGED <<dbVars, txVars>>

C6_Refused ==
    \A p \in Callers :
        (call[p].pc = "done" /\ call[p].ret.status = "conflict_detected")
        => /\ ~call[p].force
           /\ ~call[p].wrote
           /\ writer # p
           /\ Len(call[p].ret.similar_memories) >= 1
           /\ \A i \in DOMAIN call[p].ret.similar_memories :
                 call[p].ret.similar_memories[i].similarity >= 100 * DuplicateThreshold

C6_DuplicateGuardRefuses == []C6_Refused /\ [][C6_RefusalStep]_vars

\* A create was refused because of a stored record, which is still there.
C6_Witness ==
    \E p \in Callers :
        /\ call[p].pc = "done" /\ call[p].ret.status = "conflict_detected"
        /\ call[p].ret.similar_memories[1].id \in DOMAIN memories
        /\ memories[call[p].ret.similar_memories[1].id].content = call[p].content
        /\ call[p].ret.similar_memories[1].similarity = 10000

\* C7: duplicate guard bypass.  A create_memory call with force=true never
\* runs the guard and is never refused, whatever records exist: it ends
\* 'stored' unless get_embedding or a storage statement raises.  Its commit
\* adds one row under an id no committed row ever had and leaves every
\* existing record as it was, also a record with the same content; the call
\* returns 'stored' with that id.  A call with force=false, not overtaken by
\* another connection's commit, goes on to the insert whenever no existing
\* record reaches the duplicate threshold.
C7_ForceNeverRefused ==
    \A p \in Callers :
        (call[p].op = "create_memory" /\ call[p].force)
        => /\ call[p].pc \notin {"search_embed", "search_knn", "search_hydrate"}
           /\ call[p].pc = "done" => call[p].ret.status \in {"stored", "raised"}
           /\ call[p].pc = "done" /\ call[p].ret.status = "raised"
                => call[p].ret.error \in {"model_error", "sqlite3.Error",
                                           "database is locked"}

C7_InsertStep ==
    \A p \in Callers :
        /\ (call[p].op = "create_memory" /\ call[p].pc = "commit"
              /\ call'[p].pc # "commit" /\ call'[p].ret.status # "raised")
           => LET id == call[p].memory_id
                  blob == embedding_to_blob(Encode(call[p].content))
              IN  /\ id > sqlite_sequence
                  /\ id \notin DOMAIN memories
                  /\ DOMAIN memories' = DOMAIN memories \cup {id}
                  /\ \A i \in DOMAIN memories : memories'[i] = memories[i]
                  /\ memories'[id].content = call[p].content
                  /\ vec_memories' = Put(vec_memories, id, blob)
                  /\ sqlite_sequence' = id
                  /\ call'[p].pc = "select_created_at"
        /\ (call[p].op = "create_memory" /\ call[p].pc = "select_created_at"
              /\ call'[p].pc # "select_created_at")
           => /\ call'[p].pc = "done"
              /\ call'[p].ret.status = "stored"
              /\ call'[p].ret.id = call[p].memory_id
              /\ call'[p].ret.content = call[p].content
        /\ (/\ GuardDecides(p)
            /\ ~call[p].disturbed
            /\ Duplicates(memories, call[p].content, DuplicateThreshold) = {})
           => call'[p].pc = "embed"

C7_DuplicateGuardBypass == []C7_ForceNeverRefused /\ [][C7_InsertStep]_vars

\* A forced create has stored a second record with the content of a record
\* that is still there.
C7_Witness ==
    \E p \in Callers :
        /\ call[p].pc = "done" /\ call[p].ret.status = "stored" /\ call[p].force
        /\ call[p].ret.id \in DOMAIN memories
        /\ \E other \in DOMAIN memories :
              /\ other # call[p].ret.id
              /\ memories[other].content = call[p].ret.content
              /\ memories[call[p].ret.id].content = call[p].ret.content

\* The model state a caller can observe.
ModelState ==
    IF ~model_ready THEN (IF loads = 0 THEN "unloaded" ELSE "loading")
    ELSE IF model_error = None THEN "ready" ELSE "failed"

\* C8: model initialization is idempotent.  However often
\* start_model_loading is called, at most one execution of _load_model is
\* started.
C8_AtMostOneLoad ==
    Cardinality({l \in Loaders : loader[l] # "unstarted"}) <= 1

\* C9: the model state only moves unloaded -> loading -> ready or failed:
\* once ready it stays ready, once failed it stays failed.
C9_Step ==
    \/ ModelState' = ModelState
    \/ ModelState = "unloaded" /\ ModelState' = "loading"
    \/ ModelState = "loading" /\ ModelState' \in {"ready", "failed"}

C9_OneWay == [][C9_Step]_vars

\* C10: get_embedding called when no model load has been initiated fails
\* with the 'Model not loaded' error instead of waiting.
C10_Step ==
    \A p \in Callers :
        (call[p].pc = "idle" /\ call'[p].op = "get_embedding" /\ loads = 0)
        => /\ call'[p].pc = "done"
           /\ call'[p].ret.status = "raised"
           /\ call'[p].ret.error = "Model not loaded"

C10_NotLoadedFails == [][C10_Step]_vars

\* Caller p's get_embedding or get_model_info call comes to its result in
\* this step.
ModelCallEnds(p) ==
    /\ call'[p].op \in {"get_embedding", "get_model_info"}
    /\ call[p].pc \in {"idle", "wait"}
    /\ call'[p].pc = "done"

\* C11: after a model load has failed with error E, every later
\* get_embedding and get_model_info call fails with that same error E,
\* whatever further start_model_loading calls are made: the recorded error
\* is never replaced and never cleared, and every call that ends while it is
\* recorded raises it.
C11_Step ==
    ModelState = "failed"
    => /\ model_error' = model_error
       /\ \A p \in Callers :
            ModelCallEnds(p)
            => /\ call'[p].ret.status = "raised"
               /\ call'[p].ret.error = "model_error"
               /\ call'[p].ret.cause = model_error

C11_FailureIsPermanent == [][C11_Step]_vars

\* C12: all callers of get_embedding / get_model_info that were blocked
\* while the model was loading observe the same terminal outcome: all of
\* them proceed, the embedders with the same model instance, or all of them
\* fail with the same error.
C12_SameOutcome ==
    \A p, q \in Callers :
        (/\ call[p].pc = "done" /\ call[q].pc = "done"
         /\ call[p].op \in {"get_embedding", "get_model_info"}
         /\ call[q].op \in {"get_embedding", "get_model_info"}
         /\ call[p].waited /\ call[q].waited)
        => /\ call[p].ret.status = call[q].ret.status
           /\ call[p].ret.status = "raised"
                => /\ call[p].ret.error = call[q].ret.error
                   /\ call[p].ret.cause = call[q].ret.cause
           /\ (/\ call[p].ret.status = "ok"
               /\ call[p].op = "get_embedding" /\ call[q].op = "get_embedding")
                => call[p].ret.instance = call[q].ret.instance

\* C13: get_embedding never produces a vector while the model is unloaded
\* or loading.  Whenever the event is set and no error is recorded, a load
\* has completed and the model, its name and its dimension are all set; and
\* every call that returns a vector does so in such a state, with the vector
\* of its text.
C13_ReleasedMeansLoaded ==
    (model_ready /\ model_error = None)
    => /\ model # None
       /\ model_name # None
       /\ model_dimension # None
       /\ \E l \in Loaders : loader[l] = "done"

C13_SuccessStep ==
    \A p \in Callers :
        (ModelCallEnds(p) /\ call'[p].ret.status = "ok")
        => /\ ModelState = "ready"
           /\ \E l \in Loaders : loader[l] = "done"
           /\ model # None /\ model_name # None /\ model_dimension # None
           /\ call'[p].op = "get_embedding"
                => /\ call'[p].ret.vector = Encode(call'[p].content)
                   /\ call'[p].ret.instance = model

C13_NoVectorBeforeLoaded ==
    []C13_ReleasedMeansLoaded /\ [][C13_SuccessStep]_vars

\* A caller that was blocked during the load has got its vector.
C13_Witness ==
    \E p \in Callers :
        /\ call[p].op = "get_embedding" /\ call[p].pc = "done"
        /\ call[p].waited
        /\ call[p].ret.status = "ok"

\* Caller p's list_memories call returns in this step.
ListReturns(p) ==
    /\ call[p].op = "list_memories"
    /\ call[p].pc = "list_select"
    /\ call'[p].pc = "done"

\* ceil(a / b) for a >= 1 and b >= 1: the least n with n * b >= a.
CeilDiv(a, b) == CHOOSE n \in 1..a : n * b >= a /\ (n - 1) * b < a

\* C14: list_memories(page, limit) reports total = the number of rows of
\* memories, and total_pages = ceil(total / limit) for total >= 1 and
\* limit >= 1, total_pages = 1 for total = 0.
C14_Step ==
    \A p \in Callers :
        /\ (call[p].pc = "idle" /\ call'[p].op = "list_memories")
           => call'[p].total = Cardinality(DOMAIN memories)
        /\ ListReturns(p)
           => LET ret == call'[p].ret
              IN  /\ ret.status = "listed"
                  /\ ret.total = Cardinality(DOMAIN memories)
                  /\ ret.total >= 1
                       => ret.total_pages = CeilDiv(ret.total, call[p].limit)
                  /\ ret.total = 0 => ret.total_pages = 1

C14_TotalPages == [][C14_Step]_vars

\* Three records listed two to a page, and an empty store listed.
C14_Witness ==
    \E p \in Callers :
        /\ call[p].op = "list_memories" /\ call[p].pc = "done"
        /\ call[p].limit = 2
        /\ call[p].ret.total = 3
        /\ call[p].ret.total_pages = 2

\* Pages 1..n of a listing, one after the other.
RECURSIVE PagesUpTo(_, _, _)
PagesUpTo(order, limit, n) ==
    IF n = 0 THEN <<>>
    ELSE PagesUpTo(order, limit, n - 1) \o ListPage(order, n, limit)

\* C15: pagination completeness.  On a store that does not change between
\* the calls, for every limit >= 1, the pages 1..total_pages of
\* list_memories one after the other hold every record exactly once, in
\* descending created_at order, also when records share a created_at value;
\* and each call returns its page of that one listing.
C15_Complete ==
    /\ Cardinality(ListOrders(memories)) = 1
    /\ \A limit \in SeqLimits : \A order \in ListOrders(memories) :
         LET all == PagesUpTo(order, limit, TotalPages(ListTotal(memories), limit))
         IN  /\ Len(all) = Cardinality(DOMAIN memories)
             /\ Range(all) = DOMAIN memories
             /\ \A i, j \in DOMAIN all :
                  i < j => memories[all[i]].created_at >= memories[all[j]].created_at

C15_PageStep ==
    \A p \in Callers :
        ListReturns(p)
        => \E order \in ListOrders(memories) :
             LET ids == ListPage(order, call[p].page, call[p].limit)
                 listed == call'[p].ret.memories
             IN  /\ Len(listed) = Len(ids)
                 /\ \A i \in DOMAIN ids :
                      /\ listed[i].id = ids[i]
                      /\ listed[i].content = memories[ids[i]].content
                      /\ listed[i].created_at = memories[ids[i]].created_at

C15_PaginationComplete == []C15_Complete /\ [][C15_PageStep]_vars

\* The last of three one-record pages was listed, of records that share
\* their created_at value.
C15_Witness ==
    \E p \in Callers :
        /\ call[p].op = "list_memories" /\ call[p].pc = "done"
        /\ call[p].limit = 1 /\ call[p].page = 3
        /\ Len(call[p].ret.memories) = 1
        /\ Cardinality(DOMAIN memories) = 3
        /\ \A i, j \in DOMAIN memories : memories[i].created_at = memories[j].created_at

\* C16: list_memories returns the records most recent first: of two records
\* on the listing the one created later (ids are handed out in creation
\* order) never comes after the one created earlier; and an update_memory
\* call does not change the order of the listing.
C16_Listed ==
    \A p \in Callers :
        (call[p].op = "list_memories" /\ call[p].pc = "done")
        => \A i, j \in DOMAIN call[p].ret.memories :
             i < j => call[p].ret.memories[i].id > call[p].ret.memories[j].id

C16_UpdateStep ==
    \A p \in Callers :
        (call[p].op = "update_memory" /\ call[p].pc = "commit" /\ call'[p].pc = "done")
        => ListOrders(memories') = ListOrders(memories)

C16_MostRecentFirst == []C16_Listed /\ [][C16_UpdateStep]_vars

\* C17: list_memories with a page greater than total_pages returns an empty
\* memories list with the total and total_pages of page 1 and the requested
\* page number; it raises no error and leaves the store as it was.
C17_Step ==
    \A p \in Callers :
        (/\ ListReturns(p)
         /\ call[p].page > (IF Cardinality(DOMAIN memories) = 0 THEN 1
                            ELSE CeilDiv(Cardinality(DOMAIN memories), call[p].limit)))
        => LET ret == call'[p].ret
           IN  /\ ret.status = "listed"
               /\ ret.memories = <<>>
               /\ ret.total = Cardinality(DOMAIN memories)
               /\ ret.total_pages = TotalPages(ListTotal(memories), call[p].limit)
               /\ ret.page = call[p].page
               /\ UNCHANGED <<dbVars, txVars>>

C17_PageBeyondEnd == [][C17_Step]_vars

\* Page 3 of a store of three records listed two to a page: nothing.
C17_Witness ==
    \E p \in Callers :
        /\ call[p].op = "list_memories" /\ call[p].pc = "done"
        /\ call[p].page = 3 /\ call[p].limit = 2
        /\ Cardinality(DOMAIN memories) = 3
        /\ call[p].ret.memories = <<>>
        /\ call[p].ret.total = 3 /\ call[p].ret.total_pages = 2

\* Caller p's search_memories call has returned its results.
SearchDone(p) ==
    /\ call[p].op = "search_memories"
    /\ call[p].pc = "done"
    /\ call[p].ret.status = "results"

\* Caller p's search_memories call returns in this step.
SearchEnds(p) ==
    /\ call[p].op = "search_memories"
    /\ call[p].pc \in {"search_knn", "search_hydrate"}
    /\ call'[p].pc = "done"

\* C18: search_memories returns its results in non-increasing similarity
\* order, which is non-decreasing L2 distance of the stored embeddings to
\* the query, for every query, limit and threshold.
C18_Ordered ==
    \A p \in Callers :
        SearchDone(p)
        => LET results == call[p].ret.results
           IN  \A i, j \in DOMAIN results :
                 i < j =>
                   /\ results[i].similarity >= results[j].similarity
                   /\ DistSq(StoredEmbedding(memories, results[i].id),
                             Encode(call[p].content))
                        <= DistSq(StoredEmbedding(memories, results[j].id),
                                  Encode(call[p].content))

\* A search has returned two records of different similarity.
C18_Witness ==
    \E p \in Callers :
        /\ SearchDone(p)
        /\ Len(call[p].ret.results) >= 2
        /\ call[p].ret.results[1].similarity > call[p].ret.results[2].similarity

\* C19: search threshold monotonicity.  On an unchanged store, for the same
\* query and limit and thresholds t_low <= t_high, every record id that
\* search_memories returns with t_high it also returns with t_low; and what
\* a call returns is the result of the search on the store as it is.
C19_Monotone ==
    \A p \in Callers :
        SearchDone(p)
        => \A t_low \in SeqThresholds :
             t_low <= call[p].threshold
             => \A low \in SearchOn(memories, vec_memories, call[p].content,
                                    call[p].limit, t_low) :
                  IdsOf(call[p].ret.results) \subseteq IdsOf(low)

C19_SearchStep ==
    \A p \in Callers :
        SearchEnds(p)
        => /\ call'[p].ret.status = "results"
           /\ call'[p].ret.results \in
                SearchOn(memories, vec_memories, call[p].content,
                         call[p].limit, call[p].threshold)

C19_ThresholdMonotone == []C19_Monotone /\ [][C19_SearchStep]_vars

\* A search has returned some records, and the same search with a lower
\* threshold returns those and more.
C19_Witness ==
    \E p \in Callers :
        /\ SearchDone(p)
        /\ call[p].ret.results # <<>>
        /\ \E t_low \in SeqThresholds :
             /\ t_low < call[p].threshold
             /\ \E low \in SearchOn(memories, vec_memories, call[p].content,
                                    call[p].limit, t_low) :
                  /\ IdsOf(call[p].ret.results) \subseteq IdsOf(low)
                  /\ IdsOf(low) # IdsOf(call[p].ret.results)

\* C20: search_memories with limit >= 1 returns at most limit results, and
\* every returned record is a stored record whose similarity 1 - d*d/2,
\* for d its L2 distance to the query embedding, is >= the threshold; the
\* similarity reported is that value rounded to 4 places.
C20_Bounded ==
    \A p \in Callers :
        SearchDone(p)
        => LET results == call[p].ret.results
           IN  /\ Len(results) <= call[p].limit
               /\ \A i \in DOMAIN results :
                    /\ results[i].id \in DOMAIN memories
                    /\ ~BelowThreshold(SimilarityTo(memories, results[i].id,
                                                    call[p].content),
                                       call[p].threshold)
                    /\ results[i].similarity =
                         Round4(SimilarityTo(memories, results[i].id, call[p].content))

\* A search has returned limit records although more records qualify, and
\* another stored record is below the threshold.
C20_Witness ==
    \E p \in Callers :
        /\ SearchDone(p)
        /\ Len(call[p].ret.results) = call[p].limit
        /\ Cardinality(Duplicates(memories, call[p].content, call[p].threshold))
             > call[p].limit
        /\ \E id \in DOMAIN memories :
             BelowThreshold(SimilarityTo(memories, id, call[p].content),
                            call[p].threshold)

\* C21: search_memories called with limit <= 0 returns an empty list and
\* raises no error, whatever the store contains.
C21_NonPositiveLimitEmpty ==
    \A p \in Callers :
        (/\ call[p].op = "search_memories"
         /\ call[p].limit <= 0
         /\ call[p].pc = "done")
        => /\ call[p].ret.status = "results"
           /\ call[p].ret.results = <<>>

\* C22: search_memories with similarity_threshold = 0 returns the
\* min(limit, number of stored records) nearest neighbours of the query,
\* however far they are: the threshold filters no stored record out.
C22_ZeroThresholdKeepsAll ==
    \A p \in Callers :
        (SearchDone(p) /\ call[p].threshold = 0 /\ call[p].limit >= 1)
        => LET results == call[p].ret.results
               stored == Cardinality(DOMAIN memories)
               d(id) == DistSq(StoredEmbedding(memories, id), Encode(call[p].content))
           IN  /\ Len(results) = IF call[p].limit < stored THEN call[p].limit ELSE stored
               /\ \A i \in DOMAIN results :
                    \A id \in DOMAIN memories \ IdsOf(results) :
                        d(results[i].id) <= d(id)

\* The operations of the engine (database.py).
EngineOps == {"create_memory", "update_memory", "delete_memory",
              "search_memories", "list_memories"}

\* C23: no domain error escapes the engine as an exception.  Whatever
\* engine operation a caller runs, a model-unavailable, not-found or storage
\* failure reaches it as a returned result, never as a raised exception.
C23_NoExceptionEscapes ==
    \A p \in Callers :
        call[p].op \in EngineOps => call[p].ret.status # "raised"

\* The next step of a list_memories or delete_memory call of caller p that
\* does not end in an exception.
NoEmbedStep(p) ==
    /\ \/ ListSelect(p)
       \/ DeleteVec(p)
       \/ DeleteMemories(p)
       \/ Commit(p)
       \/ Return(p)
    /\ call'[p].ret.status # "raised"

\* C24: operations that need no embedding stay available whatever the
\* model state.  A list_memories or delete_memory call never waits on the
\* model: whatever the model state, its next step can be taken as long as
\* no storage statement of it has failed, and it ends with its normal
\* result; update_memory and delete_memory on a missing id return 'not
\* found' at once.
C24_NeverWaits ==
    \A p \in SeqCallers :
        call[p].op \in {"list_memories", "delete_memory"}
        => /\ ~call[p].waited
           /\ call[p].pc \notin {"wait", "embed", "search_embed"}
           /\ call[p].ret.status # "raised" => ENABLED NoEmbedStep(p)

C24_Step ==
    \A p \in SeqCallers :
        /\ (/\ call[p].pc = "idle"
            /\ call'[p].op \in {"update_memory", "delete_memory"}
            /\ call'[p].memory_id \notin DOMAIN memories)
           => /\ call'[p].pc = "done"
              /\ call'[p].ret.status = "error"
        /\ (call[p].pc = "list_select" /\ call'[p].pc = "done")
           => call'[p].ret.status = "listed"
        /\ (/\ call[p].op = "delete_memory"
            /\ call[p].pc = "commit"
            /\ call'[p].pc = "done")
           => call'[p].ret.status \in {"deleted", "raised"}

C24_NoEmbeddingNoWait == []C24_NeverWaits /\ [][C24_Step]_vars

\* A delete_memory call has returned 'deleted' while the model is still
\* loading, another thread being held in start_model_loading.
C24_Witness ==
    \E p \in SeqCallers, q \in Callers :
        /\ call[p].op = "delete_memory"
        /\ call[p].pc = "done"
        /\ call[p].ret.status = "deleted"
        /\ ModelState = "loading"
        /\ call[q].pc = "sync_load"

\* C25: readers never observe one half of a write.  No search_memories
\* call running concurrently with a write returns a result that combines the
\* vector-index state from before the write with the record state from
\* after it: the similarity reported for a record is the similarity of the
\* content reported with it.
C25_NoTornRead ==
    \A p \in Callers :
        SearchDone(p)
        => \A i \in DOMAIN call[p].ret.results :
             LET entry == call[p].ret.results[i]
             IN  entry.similarity =
                   Round4(SimilarityOf(DistSq(Encode(entry.content),
                                              Encode(call[p].content))))

\* The entries a step of caller p's read adds to what the read returns.
EntriesRead(p) ==
    IF call[p].pc = "list_select" /\ call'[p].pc = "done"
    THEN Range(call'[p].ret.memories)
    ELSE IF call[p].pc = "search_hydrate"
    THEN LET after == IF call'[p].pc = "done"
                      THEN call'[p].ret.results ELSE call'[p].results
         IN  {after[i] : i \in (Len(call[p].results) + 1)..Len(after)}
    ELSE {}

\* Caller w's create_memory or update_memory has returned successfully and
\* nothing was written after it.
LastWrite(w) ==
    /\ call[w].op \in {"create_memory", "update_memory"}
    /\ call[w].pc = "done"
    /\ call[w].ret.status \in {"stored", "updated"}

\* C26: metadata round-trip.  The metadata search_memories and
\* list_memories return for a record equals the metadata value passed to
\* the create_memory or update_memory that last wrote it, the empty object
\* included; null when it was omitted.
C26_Step ==
    \A w \in Writers, r \in Readers :
        LastWrite(w)
        => \A entry \in EntriesRead(r) :
             entry.id = call[w].memory_id
             => entry.metadata = call[w].metadata

C26_MetadataRoundTrip == [][C26_Step]_vars

\* C27: record ids are unique and monotonically assigned.  Every id in the
\* store is at most the highest id assigned so far; a create that commits
\* gets an id above every id assigned before it, so above the id of every
\* earlier create and of every deleted record, and returns that id;
\* update_memory leaves the ids of the store as they are.
C27_IdsAssigned ==
    \A id \in DOMAIN memories : id <= sqlite_sequence

C27_Step ==
    /\ sqlite_sequence' >= sqlite_sequence
    /\ \A id \in DOMAIN memories' \ DOMAIN memories :
          /\ id > sqlite_sequence
          /\ \A other \in DOMAIN memories : id > other
    /\ \A p \in Callers :
          /\ (call[p].op = "create_memory" /\ call[p].pc = "commit"
                                           /\ call'[p].pc = "select_created_at")
             => /\ DOMAIN memories' = DOMAIN memories \cup {call[p].memory_id}
                /\ call[p].memory_id \notin DOMAIN memories
                /\ sqlite_sequence' = call[p].memory_id
          /\ (call[p].pc = "select_created_at" /\ call'[p].pc = "done")
             => /\ call'[p].ret.status = "stored"
                /\ call'[p].ret.id = call[p].memory_id
          /\ (call[p].op = "update_memory" /\ call[p].pc = "commit"
                                           /\ call'[p].pc = "done")
             => /\ DOMAIN memories' = DOMAIN memories
                /\ call'[p].ret.id = call[p].memory_id

C27_IdsMonotone == []C27_IdsAssigned /\ [][C27_Step]_vars

\* A create is about to commit with id 2 on a store that is empty because
\* the record with id 1 has been deleted.
C27_Witness ==
    \E p \in Callers :
        /\ call[p].op = "create_memory"
        /\ call[p].pc = "commit"
        /\ call[p].memory_id = 2
        /\ DOMAIN memories = {}
        /\ sqlite_sequence = 1

\* Caller p's update_memory commits in this step.
UpdateCommits(p) ==
    /\ call[p].op = "update_memory"
    /\ call[p].pc = "commit"
    /\ call'[p].pc = "done"

\* C28: timestamps.  A record gets its created_at and its updated_at when
\* it is created, and created_at is never changed afterwards; updated_at is
\* replaced, by the time the update took from the clock (the updated_at the
\* update returns), at every successful update_memory of the record, and is
\* changed by no other operation.
C28_Step ==
    /\ \A id \in DOMAIN memories' \ DOMAIN memories :
          /\ memories'[id].created_at \in Times
          /\ memories'[id].updated_at = memories'[id].created_at
    /\ \A id \in DOMAIN memories \cap DOMAIN memories' :
          /\ memories'[id].created_at = memories[id].created_at
          /\ memories'[id].updated_at # memories[id].updated_at
             => \E p \in Callers : UpdateCommits(p) /\ call[p].memory_id = id
    /\ \A p \in Callers :
          (UpdateCommits(p) /\ call[p].memory_id \in DOMAIN memories')
          => /\ call'[p].ret.status = "updated"
             /\ memories'[call[p].memory_id].updated_at = call[p].stamp
             /\ call'[p].ret.updated_at = call[p].stamp

C28_Timestamps == [][C28_Step]_vars

\* An update has returned on a record created at an earlier time: the
\* record has its old created_at and the updated_at of the update.
C28_Witness ==
    \E p \in Callers :
        /\ call[p].op = "update_memory"
        /\ call[p].pc = "done"
        /\ call[p].ret.status = "updated"
        /\ call[p].memory_id \in DOMAIN memories
        /\ memories[call[p].memory_id].created_at = 0
        /\ memories[call[p].memory_id].updated_at = 1
        /\ call[p].ret.updated_at = 1

\* Caller p has converted a vector to a blob and the blob back.
RoundTripDone(p) ==
    /\ call[p].op = "blob_to_embedding"
    /\ call[p].pc = "done"

\* x is a single precision float: its significand fits in 24 bits.
IsFloat32(x) ==
    \E e \in 0..7 :
        /\ Abs(x) % Pow2(e) = 0
        /\ Abs(x) \div Pow2(e) <= Significand

\* C29 as stated: binary round-trip.  For every vector v of finite floats,
\* blob_to_embedding(embedding_to_blob(v)) has the length of v and equals v
\* element for element, and the blob is exactly 4 bytes per element.
C29_RoundTripExact ==
    \A p \in Callers :
        RoundTripDone(p)
        => /\ Len(call[p].ret.vector) = Len(call[p].embedding)
           /\ call[p].ret.vector = call[p].embedding
           /\ call[p].ret.blob.bytes = 4 * Len(call[p].embedding)

\* C29, amended: binary round-trip of single precision values.  For every
\* vector v of floats that are representable in single precision,
\* blob_to_embedding(embedding_to_blob(v)) has the length of v and equals v
\* element for element, and the blob is exactly 4 bytes per element.
C29_RoundTripSingle ==
    \A p \in Callers :
        (/\ RoundTripDone(p)
         /\ \A i \in DOMAIN call[p].embedding : IsFloat32(call[p].embedding[i]))
        => /\ Len(call[p].ret.vector) = Len(call[p].embedding)
           /\ call[p].ret.vector = call[p].embedding
           /\ call[p].ret.blob.bytes = 4 * Len(call[p].embedding)

\* A vector of MaxDim single precision values, one of them beyond 2^24, has
\* made the round trip.
C29_Witness ==
    \E p \in Callers :
        /\ RoundTripDone(p)
        /\ Len(call[p].embedding) = MaxDim
        /\ \A i \in DOMAIN call[p].embedding : IsFloat32(call[p].embedding[i])
        /\ \E i \in DOMAIN call[p].embedding : call[p].embedding[i] > Significand
        /\ call[p].ret.vector = call[p].embedding

\* C30: under concurrency, update_memory(id, ...) returns 'updated' only
\* if, in the state its commit leaves, a record with that id exists and
\* holds the new content and embedding; when a delete_memory(id) commits
\* between the existence check and the write, it does not report 'updated'.
C30_Step ==
    \A p \in Callers :
        (UpdateCommits(p) /\ call'[p].ret.status = "updated")
        => LET id == call[p].memory_id
           IN  /\ id \in DOMAIN memories'
               /\ id \in DOMAIN vec_memories'
               /\ memories'[id].content = call[p].content
               /\ memories'[id].embedding = embedding_to_blob(Encode(call[p].content))
               /\ vec_memories'[id] = embedding_to_blob(Encode(call[p].content))

C30_UpdatedMeansStored == [][C30_Step]_vars

\* C31: the duplicate guard is check-then-act.  When a create_memory call
\* with force=false begins after the commit of a create of the same or a
\* near-duplicate text, and so does not overlap it, the call returns
\* 'conflict_detected' naming a record at or above the duplicate threshold
\* and writes nothing.  (Two such calls that overlap can both return
\* 'stored': that execution is C31_Witness.)
C31_Step ==
    \A p \in Callers :
        (/\ GuardDecides(p)
         /\ ~call[p].force
         /\ ~call[p].disturbed
         /\ \E id \in DOMAIN memories :
               ~BelowThreshold(SimilarityTo(memories, id, call[p].content),
                               DuplicateThreshold))
        => /\ call'[p].pc = "done"
           /\ call'[p].ret.status = "conflict_detected"
           /\ \E i \in DOMAIN call'[p].ret.similar_memories :
                 call'[p].ret.similar_memories[i].id \in DOMAIN memories
           /\ UNCHANGED <<dbVars, txVars>>

C31_SecondIsRefused == [][C31_Step]_vars

\* Both callers have returned 'stored' from a create_memory with force=false
\* and the store holds their two records, each at or above the duplicate
\* threshold to the other's text.
C31_Witness ==
    \E p, q \in Callers :
        /\ p # q
        /\ \A r \in {p, q} :
              /\ call[r].op = "create_memory" /\ ~call[r].force
              /\ call[r].pc = "done" /\ call[r].ret.status = "stored"
              /\ call[r].ret.id \in DOMAIN memories
              /\ memories[call[r].ret.id].content = call[r].content
        /\ call[p].ret.id # call[q].ret.id
        /\ DOMAIN memories = {call[p].ret.id, call[q].ret.id}
        /\ ~BelowThreshold(SimilarityTo(memories, call[p].ret.id, call[q].content),
                           DuplicateThreshold)
        /\ ~BelowThreshold(SimilarityTo(memories, call[q].ret.id, call[p].content),
                           DuplicateThreshold)

\* C32: liveness of model loading.  Once start_model_loading has been
\* called the event is eventually set, whether the load succeeds or raises,
\* and every caller blocked in get_embedding, get_model_info or
\* wait_for_model eventually returns or fails.
C32_NoCallerBlocksForever ==
    /\ (loads > 0) ~> model_ready
    /\ \A p \in Callers :
          (loads > 0 /\ call[p].pc = "wait") ~> (call[p].pc = "done")

\* A caller that was blocked in wait_for_model has been released by a load
\* that failed.
C32_Witness ==
    \E p \in Callers :
        /\ call[p].op = "wait_for_model" /\ call[p].waited
        /\ call[p].pc = "done"
        /\ call[p].ret.status = "raised"
        /\ model = None

\* The rowids of the index whose similarity to text is at or above threshold.
Qualifying(vec, text, threshold) ==
    {id \in DOMAIN vec :
        ~BelowThreshold(SimilarityOf(DistSq(blob_to_embedding(vec[id]), Encode(text))),
                        threshold)}

\* C33: search completeness.  On a store where the pairing invariant holds,
\* search_memories with limit >= 1 returns min(limit, q) records, q being the
\* number of stored records at or above the threshold; every one of them is
\* at or above the threshold, none comes twice, and no stored record that
\* was left out is nearer to the query than one that was returned.
C33_Complete ==
    \A p \in Callers :
        (/\ SearchDone(p)
         /\ call[p].limit >= 1
         /\ DOMAIN memories = DOMAIN vec_memories)
        => LET results == call[p].ret.results
               query == call[p].content
               Q == Qualifying(vec_memories, query, call[p].threshold)
               q == Cardinality(Q)
               d(id) == DistSq(blob_to_embedding(vec_memories[id]), Encode(query))
           IN  /\ Len(results) = IF call[p].limit < q THEN call[p].limit ELSE q
               /\ IdsOf(results) \subseteq Q
               /\ Cardinality(IdsOf(results)) = Len(results)
               /\ \A i \in IdsOf(results), j \in DOMAIN vec_memories \ IdsOf(results) :
                     d(i) <= d(j)

\* A search with limit 1 on a store where three records qualify, more than
\* the two candidates it fetched, has returned one record.
C33_Witness ==
    \E p \in Callers :
        /\ SearchDone(p)
        /\ call[p].limit = 1
        /\ DOMAIN memories = DOMAIN vec_memories
        /\ Cardinality(Qualifying(vec_memories, call[p].content, call[p].threshold)) = 3
        /\ Len(call[p].ret.results) = 1

\* C34: search_memories tolerates a candidate of the vector index whose
\* record cannot be read (the record was deleted after the index query).
\* The pass over such a candidate adds nothing to the results and raises
\* nothing, the loop goes on with the candidates that remain, and what the
\* search returns is in non-increasing order of similarity.
C34_Step ==
    \A p \in Callers :
        (/\ call[p].op = "search_memories"
         /\ call[p].pc = "search_hydrate"
         /\ call'[p] # call[p]
         /\ Head(call[p].cands).rowid \notin DOMAIN memories)
        => /\ call'[p].ret.status # "raised"
           /\ IF Tail(call[p].cands) = <<>>
              THEN /\ call'[p].pc = "done"
                   /\ call'[p].ret.status = "results"
                   /\ call'[p].ret.results = call[p].results
              ELSE /\ call'[p].pc = "search_hydrate"
                   /\ call'[p].results = call[p].results
                   /\ call'[p].cands = Tail(call[p].cands)

C34_InOrder ==
    \A p \in Callers :
        SearchDone(p)
        => \A i, j \in DOMAIN call[p].ret.results :
             i < j => call[p].ret.results[i].similarity
                        >= call[p].ret.results[j].similarity

C34_SkipsMissing == []C34_InOrder /\ [][C34_Step]_vars

\* A search with limit 1 has passed over its nearest candidate without a
\* result, although the candidate was at or above the threshold (the next
\* one, farther away, is): its record had been deleted, the one delete so
\* far.  The search goes on with the next candidate, whose record is there.
C34_Witness ==
    \E p \in Readers, w \in Writers :
        /\ call[p].op = "search_memories" /\ call[p].pc = "search_hydrate"
        /\ call[p].limit = 1
        /\ call[p].results = <<>>
        /\ Len(call[p].cands) = 1
        /\ ~BelowThreshold(SimilarityOf(Head(call[p].cands).distsq), call[p].threshold)
        /\ Head(call[p].cands).rowid \in DOMAIN memories
        /\ Cardinality(DOMAIN memories) = MaxRows - 1
        /\ call[w].op = "delete_memory" /\ call[w].pc = "done"
        /\ call[w].ret.status = "deleted"

\* Caller p takes a step of a read in this step: it begins a search, a
\* listing or a guarded create, or it executes a statement of
\* search_memories (called directly or through find_similar_memories by
\* create_memory) or of list_memories.
ReadStep(p) ==
    \/ /\ call[p].pc = "idle"
       /\ \/ call'[p].op \in {"search_memories", "list_memories"}
          \/ call'[p].op = "create_memory" /\ ~call'[p].force
    \/ /\ call[p].pc \in {"search_embed", "search_knn", "search_hydrate", "list_select"}
       /\ \/ call'[p].pc # call[p].pc
          \/ call'[p].cands # call[p].cands

\* C35: search_memories, find_similar_memories, list_memories and a
\* create_memory call that ends in 'conflict_detected' are pure reads.  No
\* step of theirs changes table memories, the index vec_memories, the id
\* counter, an open transaction or the write lock, or the state of the
\* model; and the refused create has written nothing.
C35_Step ==
    \A p \in Callers :
        ReadStep(p)
        => /\ UNCHANGED <<dbVars, txVars, modelVars>>
           /\ ~call'[p].wrote
           /\ call'[p].ret.status = "conflict_detected" => call'[p].pc = "done"

C35_PureReads == [][C35_Step]_vars

\* On a store that holds a record, one caller's create has been refused and
\* the other's search has returned that record.
C35_Witness ==
    \E p, q \in Callers :
        /\ call[p].op = "create_memory" /\ call[p].pc = "done"
        /\ call[p].ret.status = "conflict_detected"
        /\ SearchDone(q)
        /\ Len(call[q].ret.results) = 1
        /\ DOMAIN memories = {call[q].ret.results[1].id}
        /\ DOMAIN vec_memories = DOMAIN memories

\* Caller p is inside get_embedding, blocked on the event or about to encode.
InGetEmbedding(p) == call[p].pc \in {"embed", "search_embed"}

\* C36: model inference never runs inside a storage write transaction.  A
\* caller inside get_embedding, in create_memory, update_memory or
\* search_memories, has issued no write statement and does not hold the
\* write lock; and the step in which a create or an update takes the write
\* lock, with its first write statement, comes when its get_embedding has
\* returned the embedding of its content.
C36_NoLockInInference ==
    \A p \in Callers :
        InGetEmbedding(p) => writer # p /\ ~call[p].wrote

C36_Step ==
    \A p \in Callers :
        (writer' = p /\ writer # p)
        => /\ ~InGetEmbedding(p)
           /\ ~InGetEmbedding(p)'
           /\ call[p].op \in {"create_memory", "update_memory"}
                => call[p].embedding = Encode(call[p].content)

C36_InferenceOutsideTransaction ==
    []C36_NoLockInInference /\ [][C36_Step]_vars

\* One caller's update_memory waits in get_embedding for the model, which is
\* not loaded yet, and the other caller's delete_memory of the same record
\* has committed meanwhile.
C36_Witness ==
    \E p, q \in Callers :
        /\ call[p].op = "update_memory" /\ call[p].pc = "embed"
        /\ ~model_ready
        /\ call[q].op = "delete_memory" /\ call[q].pc = "done"
        /\ call[q].ret.status = "deleted"
        /\ call[q].memory_id = call[p].memory_id
        /\ call[p].memory_id \notin DOMAIN memories

====
